---- MODULE Spec2Model ----
(***************************************************************************)
(* VMTree: a page-oriented B+-tree (vmtree.c) on top of a small page       *)
(* buffer with a free-page bitmap, a write cursor and block erase          *)
(* (dbbuffer.c).  The model keeps the three storage modes of the tree      *)
(* (copy-on-write VMTREE, update-in-place OVERWRITE, in-page NOR_OVERWRITE)*)
(* the mapping table, the active path, the buffer frames and the storage   *)
(* device.  Every public operation (put, get, iterator init/next) is one   *)
(* action; the helpers are operators over a state record s.               *)
(***************************************************************************)
EXTENDS Integers, Sequences, FiniteSets, TLC

(***************************************************************************)
(* Bounds of the model.                                                    *)
(***************************************************************************)
MaxKey == 26          \* keys are 1..MaxKey
StorageSize == 24     \* pages declared by the storage driver
SmallStorage == 16    \* pages of the small device
MaxPuts == 13         \* puts per run, in-page-overwrite mode on the small device
CowPuts == 12         \* puts per run, copy-on-write mode with the large mapping table
MapPuts == 11         \* puts per run, copy-on-write mode with the small mapping table
OverwritePuts == 11   \* puts per run, update-in-place mode
GenPuts == 3          \* puts per run when every public operation is interleaved
MaxGets == 1          \* state-changing gets per run (gets are also evaluated in every state)
MaxIters == 1         \* iterator scans per run
TallStorage == 128     \* pages of the device the tall trees are built on
TallPuts == 32         \* puts per run of ascending keys
BitBytes == 2          \* bytes of the bit vector the bit functions are called on
MaxBitOps == 1         \* calls of the bit functions per run
MaxMapOps == 4         \* calls of the mapping table's functions per run
MapPrevs == 6          \* the pages 0..MapPrevs-1 are used as previous pages of mappings
WideSlots == 4        \* record slots of the leaves of the node-level runs
WideKeys == 6         \* keys of the leaves of the node-level runs
PageKeys == 4         \* keys of the leaves of the page-level runs
MaxFaults == 1        \* operations per run during which the driver fails a read or a write
PageSize == 32        \* bytes per page, sorted layouts
NorPageSize == 52     \* bytes per page, overwrite layout
SmallMappings == 1    \* mapping slots of the small mapping table
LargeMappings == 5    \* mapping slots of the large mapping table

(***************************************************************************)
(* Program constants.                                                      *)
(***************************************************************************)
KeySize == 4
DataSize == 4
IdSize == 4
SortedHeaderSize == 10
NorBaseHeaderSize == 12
EraseSizeInPages == 4
EnsurePages == 8
MaxTries == 1
HashStride == 7
BV_UNIT_SIZE == 8
\* 32-bit words are kept on a scale that the model checker's integers hold:
\* WORD_ONES stands for 0xFFFFFFFF and INT32_MAX for 0x7FFFFFFF; every page id,
\* key and datum of the model is far below both, and their order is the code's.
WORD_ONES == 2147483647
EMPTY_MAPPING == WORD_ONES
PREV_ID_CONSTANT == WORD_ONES
INT32_MAX == WORD_ONES \div 2
ERASED_WORD == WORD_ONES
MAX_LEVEL == 8

VMTREE == "VMTREE"
OVERWRITE == "OVERWRITE"
NOR_OVERWRITE == "NOR_OVERWRITE"

Keys == 1..MaxKey
DataOf(k) == 100 + k
NoKey == 0 - 1

Junk == INT32_MAX + 7     \* what a read outside the record area of a page yields

VARIABLES
    parameters,       \* storage mode of the tree (vmtreeState.parameters)
    numPages,         \* number of buffer frames N_b (dbbuffer.numPages)
    maxMappings,      \* capacity M of the mapping table
    endDataPage,      \* last physical page of the data area (dbbuffer.endDataPage)
    storage,          \* device: physical page id -> page image
    prog,             \* device: writes to the page since the last erase covering it (capped at 2)
    freePages,        \* free-page bit vector
    status,           \* frame -> physical id of the page it holds (0: none)
    frames,           \* frame -> page image
    nextPageId, nextPageWriteId, erasedStartPage, erasedEndPage,
    lastHit, nextBufferPage,
    activePath, levels, mappings, numMappings, savedMappingPrev, savedMappingCurr,
    it,               \* iterator state (vmtreeIterator)
    inserted,         \* history: keys whose put returned 0
    lastOp,           \* history: the last public operation and what it returned
    hist              \* history: counters and facts about the last operation

vars == <<parameters, numPages, maxMappings, endDataPage, storage, prog, freePages, status, frames,
          nextPageId, nextPageWriteId, erasedStartPage, erasedEndPage, lastHit,
          nextBufferPage, activePath, levels, mappings, numMappings, savedMappingPrev,
          savedMappingCurr, it, inserted,
          lastOp, hist>>

(***************************************************************************)
(* Page geometry (vmtreeInit).                                             *)
(***************************************************************************)
recordSize == KeySize + DataSize

maxRecordsPerPage(mode) ==
    IF mode /= NOR_OVERWRITE
    THEN (PageSize - SortedHeaderSize) \div recordSize
    ELSE ((NorPageSize - NorBaseHeaderSize) * 8) \div (recordSize * 8 + 2)

bitmapSize(mode) == (maxRecordsPerPage(mode) + 7) \div 8

headerSize(mode) ==
    IF mode /= NOR_OVERWRITE THEN SortedHeaderSize ELSE 10 + 2 * bitmapSize(mode)

maxInteriorRecordsPerPage(mode) ==
    IF mode /= NOR_OVERWRITE
    THEN (PageSize - headerSize(mode) - IdSize) \div (KeySize + IdSize)
    ELSE ((NorPageSize - headerSize(mode) - IdSize) * 8) \div ((KeySize + IdSize) * 8 + 2)

endDataPageOf(size) == (size \div EraseSizeInPages) * EraseSizeInPages - 1

MaxOf(a, b) == IF a >= b THEN a ELSE b
MinOf(a, b) == IF a <= b THEN a ELSE b
SlotCap(mode) == MaxOf(maxRecordsPerPage(mode), maxInteriorRecordsPerPage(mode))

(***************************************************************************)
(* Page images.  keys[i] is the i-th key slot; vals[i] is the i-th data    *)
(* slot of a leaf or the i-th child pointer of an interior node; bm1/bm2   *)
(* are the slot-free and slot-valid bitmaps of the overwrite layout.       *)
(***************************************************************************)
FilledPage(mode, word, bit) ==
    [id |-> word, prev |-> word, count |-> 0, root |-> FALSE, interior |-> FALSE,
     bm1 |-> [i \in 0..SlotCap(mode)-1 |-> bit],
     bm2 |-> [i \in 0..SlotCap(mode)-1 |-> bit],
     keys |-> [i \in 0..SlotCap(mode)-1 |-> word],
     vals |-> [i \in 0..SlotCap(mode) |-> word]]

COUNT_ONES == 2^16 - 1     \* a count field whose 16 bits are all set

ErasedPage(mode) ==
    [FilledPage(mode, ERASED_WORD, 1) EXCEPT !.count = COUNT_ONES, !.root = TRUE, !.interior = TRUE]

Rd(f, i) == IF i \in DOMAIN f THEN f[i] ELSE Junk

\* memmove/memcpy of n slots from src to dst inside one array
Move(f, dst, src, n) ==
    [i \in DOMAIN f |-> IF n > 0 /\ i >= dst /\ i < dst + n THEN Rd(f, src + (i - dst)) ELSE f[i]]

Put1(f, i, v) == [j \in DOMAIN f |-> IF j = i THEN v ELSE f[j]]

\* the first n slots of array f as a sequence
SlotsOf(f, n) == [i \in 1..n |-> Rd(f, i - 1)]

VMTREE_SET_COUNT(pg, c) == [pg EXCEPT !.count = c, !.root = FALSE, !.interior = FALSE]
VMTREE_INC_COUNT(pg) == [pg EXCEPT !.count = @ + 1]
VMTREE_SET_ROOT(pg) == [pg EXCEPT !.root = TRUE, !.interior = TRUE]
VMTREE_SET_INTERIOR(pg) == [pg EXCEPT !.interior = TRUE]
VMTREE_SET_LEAF(pg) == [pg EXCEPT !.interior = FALSE, !.root = FALSE]
VMTREE_SET_PREV(pg, p) == [pg EXCEPT !.prev = p]

compareKey(a, b) == IF a > b THEN 1 ELSE IF a < b THEN 0 - 1 ELSE 0

(***************************************************************************)
(* Bit vectors (bitarr.c): a vector is a function from byte index to byte. *)
(***************************************************************************)
BitOf(b, k) == (b \div 2^k) % 2

\* a & b and a | b on the bits k..7 of two bytes
RECURSIVE ByteAnd(_, _, _)
ByteAnd(a, b, k) ==
    IF k = BV_UNIT_SIZE THEN 0 ELSE BitOf(a, k) * BitOf(b, k) * 2^k + ByteAnd(a, b, k + 1)

RECURSIVE ByteOr(_, _, _)
ByteOr(a, b, k) ==
    IF k = BV_UNIT_SIZE THEN 0
    ELSE (IF BitOf(a, k) + BitOf(b, k) > 0 THEN 2^k ELSE 0) + ByteOr(a, b, k + 1)

\* variant that shifts the mask by the byte index instead of the bit index
bitarrSetByteShift(vector, pos, value) ==
    IF value /= 0
    THEN [vector EXCEPT ![pos \div BV_UNIT_SIZE] = ByteOr(@, 2^(pos \div BV_UNIT_SIZE), 0)]
    ELSE [vector EXCEPT ![pos \div BV_UNIT_SIZE] = ByteAnd(@, 255 - 2^(pos \div BV_UNIT_SIZE), 0)]

bitarrSet(vector, pos, value) ==
    IF value /= 0
    THEN [vector EXCEPT ![pos \div BV_UNIT_SIZE] = ByteOr(@, 2^(pos % BV_UNIT_SIZE), 0)]
    ELSE [vector EXCEPT ![pos \div BV_UNIT_SIZE] = ByteAnd(@, 255 - 2^(pos % BV_UNIT_SIZE), 0)]

bitarrGet(vector, pos) ==
    IF ByteAnd(vector[pos \div BV_UNIT_SIZE], 2^(pos % BV_UNIT_SIZE), 0) > 0 THEN 1 ELSE 0

(***************************************************************************)
(* Mapping table (open addressing, stride 7, at most MaxTries probes).     *)
(***************************************************************************)
Probe(s, pageId, i) == ((pageId % s.maxMappings) + HashStride * i) % s.maxMappings

vmtreeGetMappingIndex(s, pageId) ==
    IF s.numMappings = 0 THEN 0 - 1
    ELSE LET hit == {i \in 0..MaxTries-1 : s.mappings[Probe(s, pageId, i)].prevPage = pageId}
         IN IF hit = {} THEN 0 - 1
            ELSE Probe(s, pageId, CHOOSE i \in hit : \A j \in hit : i <= j)

vmtreeGetMapping(s, pageId) ==
    LET idx == vmtreeGetMappingIndex(s, pageId)
    IN IF idx /= 0 - 1 THEN s.mappings[idx].currPage ELSE pageId

\* variant that counts a mapping on every successful call, also when it updates one in place
vmtreeAddMappingCountsUpdates(s, prevPage, currPage) ==
    LET usable == {i \in 0..MaxTries-1 :
                      \/ s.mappings[Probe(s, prevPage, i)].prevPage = prevPage
                      \/ s.mappings[Probe(s, prevPage, i)].prevPage = EMPTY_MAPPING}
    IN IF usable = {} THEN [s EXCEPT !.rv = 0 - 1, !.numMappingCompare = @ + MaxTries]
       ELSE LET i == CHOOSE x \in usable : \A y \in usable : x <= y
                loc == Probe(s, prevPage, i)
            IN [s EXCEPT !.mappings[loc] = [prevPage |-> prevPage, currPage |-> currPage],
                         !.numMappings = @ + 1, !.rv = 0, !.numMappingCompare = @ + i + 1]

\* result in rv: 0 stored, -1 no slot within the probe chain; every probe of the chain
\* advances numMappingCompare, whatever the call returns
vmtreeAddMapping(s, prevPage, currPage) ==
    LET usable == {i \in 0..MaxTries-1 :
                      \/ s.mappings[Probe(s, prevPage, i)].prevPage = prevPage
                      \/ s.mappings[Probe(s, prevPage, i)].prevPage = EMPTY_MAPPING}
    IN IF usable = {} THEN [s EXCEPT !.rv = 0 - 1, !.numMappingCompare = @ + MaxTries]
       ELSE LET i == CHOOSE x \in usable : \A y \in usable : x <= y
                loc == Probe(s, prevPage, i)
            IN IF s.mappings[loc].prevPage = prevPage
               THEN [s EXCEPT !.mappings[loc].currPage = currPage, !.rv = 0,
                              !.numMappingCompare = @ + i + 1]
               ELSE [s EXCEPT !.mappings[loc] = [prevPage |-> prevPage, currPage |-> currPage],
                              !.numMappings = @ + 1, !.rv = 0, !.numMappingCompare = @ + i + 1]

\* variant that clears the slot and leaves the entry count as it was
vmtreeDeleteMappingKeepsCount(s, prevPage) ==
    IF s.numMappings = 0 THEN s
    ELSE LET hit == {i \in 0..MaxTries-1 : s.mappings[Probe(s, prevPage, i)].prevPage = prevPage}
         IN IF hit = {} THEN s
            ELSE [s EXCEPT !.mappings[Probe(s, prevPage, CHOOSE i \in hit : \A j \in hit : i <= j)].prevPage
                               = EMPTY_MAPPING]

vmtreeDeleteMapping(s, prevPage) ==
    IF s.numMappings = 0 THEN s
    ELSE LET hit == {i \in 0..MaxTries-1 : s.mappings[Probe(s, prevPage, i)].prevPage = prevPage}
         IN IF hit = {} THEN [s EXCEPT !.numMappingCompare = @ + MaxTries]
            ELSE LET i == CHOOSE x \in hit : \A j \in hit : x <= j
                     loc == Probe(s, prevPage, i)
                 IN [s EXCEPT !.mappings[loc].prevPage = EMPTY_MAPPING, !.numMappings = @ - 1,
                              !.numMappingCompare = @ + i + 1]

\* variant that never consults the mapping table
vmtreeIsValidNoMapping(s, pageNum) ==
    IF s.freePages[pageNum] = 0 THEN 0 ELSE 0 - 1

vmtreeIsValid(s, pageNum) ==
    IF s.freePages[pageNum] = 0 THEN 0
    ELSE IF vmtreeGetMapping(s, pageNum) /= pageNum THEN 1 ELSE 0 - 1

(***************************************************************************)
(* Storage device.  A read or write outside the device fails; a failed     *)
(* read leaves the destination untouched.  s.bad is the page whose reads   *)
(* fail in the runs with read faults (-1: none).                           *)
(***************************************************************************)
DeviceIdsOf(s) == DOMAIN s.storage
ScanFuel(s) == s.endDataPage + 3

storageReadPage(s, pageNum) == pageNum \in DeviceIdsOf(s) /\ pageNum /= s.bad

storageErasePages(s, startPage, endPage) ==
    [s EXCEPT !.storage = [p \in DOMAIN @ |-> IF p >= startPage /\ p <= endPage
                                               THEN ErasedPage(s.parameters) ELSE @[p]],
              !.prog = [p \in DOMAIN @ |-> IF p >= startPage /\ p <= endPage THEN 0 ELSE @[p]],
              !.erases = @ + 1,
              !.erasedPages = @ \cup {p \in DOMAIN s.storage : p >= startPage /\ p <= endPage}]

\* the driver fails every write of page s.badW and leaves the page as it was
storageWritePage(s, pageNum, pg) ==
    IF pageNum = s.badW THEN [s EXCEPT !.writeFailed = TRUE, !.failedPage = pageNum]
    ELSE IF pageNum \in DeviceIdsOf(s) THEN [s EXCEPT !.storage[pageNum] = pg] ELSE s

(***************************************************************************)
(* Page buffer (dbbuffer.c).                                               *)
(***************************************************************************)
dbbufferSetFree(s, pageNum) ==
    IF pageNum \in DOMAIN s.freePages THEN [s EXCEPT !.freePages[pageNum] = 1] ELSE s

dbbufferSetValid(s, pageNum) ==
    IF pageNum \in DOMAIN s.freePages THEN [s EXCEPT !.freePages[pageNum] = 0] ELSE s

dbbufferIsFree(s, pageNum) == IF pageNum \in DOMAIN s.freePages THEN s.freePages[pageNum] ELSE 0

\* frame bufferNum receives the stored image of pageNum; the driver's result is ignored
readPageBuffer(s, pageNum, bufferNum) ==
    IF storageReadPage(s, pageNum)
    THEN [s EXCEPT !.frames[bufferNum] = s.storage[pageNum], !.rv = bufferNum, !.reads = @ + 1]
    ELSE [s EXCEPT !.rv = bufferNum, !.reads = @ + 1, !.readFailed = TRUE]

RECURSIVE RoundRobin(_, _, _, _)
RoundRobin(s, i, nbp, fuel) ==
    LET i1 == IF i > s.numPages - 1 THEN 2 ELSE i
        nbp1 == IF i > s.numPages - 1 THEN 2 ELSE nbp
    IN IF fuel = 0 THEN [i |-> i1, nbp |-> nbp1, hang |-> TRUE]
       ELSE IF s.status[i1] /= s.lastHit THEN [i |-> i1, nbp |-> nbp1, hang |-> FALSE]
       ELSE RoundRobin(s, i1 + 1, nbp1, fuel - 1)

\* rv: the frame that holds the page
readPage(s, pageNum) ==
    LET hit == {i \in 1..s.numPages-1 : s.status[i] = pageNum /\ pageNum /= 0}
        empty == {i \in 2..s.numPages-1 : s.status[i] = 0}
    IN IF hit /= {}
       THEN [s EXCEPT !.lastHit = pageNum, !.rv = CHOOSE i \in hit : \A j \in hit : i <= j]
       ELSE IF s.numPages = 2
       THEN readPageBuffer([s EXCEPT !.status[1] = pageNum], pageNum, 1)
       ELSE IF s.activePath[0] = pageNum
       THEN readPageBuffer([s EXCEPT !.status[1] = pageNum], pageNum, 1)
       ELSE IF s.numPages = 3
       THEN readPageBuffer([s EXCEPT !.status[2] = pageNum], pageNum, 2)
       ELSE IF empty /= {}
       THEN LET i == CHOOSE x \in empty : \A y \in empty : x <= y
            IN readPageBuffer([s EXCEPT !.status[i] = pageNum], pageNum, i)
       ELSE LET r == RoundRobin(s, s.nextBufferPage, s.nextBufferPage + 1, s.numPages + 1)
            IN readPageBuffer([s EXCEPT !.status[r.i] = pageNum, !.nextBufferPage = r.nbp,
                                        !.hang = @ \/ r.hang], pageNum, r.i)

erasePages(s, startPage, endPage) ==
    LET s1 == storageErasePages(s, startPage, endPage)
    IN [s1 EXCEPT !.freePages = [p \in DOMAIN @ |-> IF p >= startPage /\ p <= endPage THEN 1 ELSE @[p]]]

\* the cursor after the pre-increment; scans until a free page without a mapping
RECURSIVE NextValidScan(_, _, _)
\* pastWindow: the cursor has stepped from erasedEndPage to the page after it
NextValidScan(s, cursor, fuel) ==
    LET c == IF cursor > s.endDataPage THEN 0 ELSE cursor
        past == s.pastWindow \/ cursor - 1 = s.erasedEndPage
    IN IF fuel = 0 THEN [s EXCEPT !.hang = TRUE, !.nextPageWriteId = c, !.rv = c, !.pastWindow = past]
       ELSE IF dbbufferIsFree(s, c) = 1 /\ vmtreeGetMapping(s, c) = c
       THEN [s EXCEPT !.nextPageWriteId = c, !.rv = c, !.pastWindow = past]
       ELSE NextValidScan([s EXCEPT !.pastWindow = past,
                                    !.stepped = @ + dbbufferIsFree(s, c)], c + 1, fuel - 1)

\* variant that takes the next page whose free bit is set, mapped or not
dbbufferNextValidPageAnyFree(s) ==
    LET n == s.endDataPage + 1
        free == {k \in 1..n : dbbufferIsFree(s, (s.nextPageWriteId + k) % n) = 1}
    IN IF free = {} THEN [s EXCEPT !.hang = TRUE, !.rv = 0]
       ELSE LET c == (s.nextPageWriteId + (CHOOSE k \in free : \A j \in free : k <= j)) % n
            IN [s EXCEPT !.nextPageWriteId = c, !.rv = c]

dbbufferNextValidPage(s) == NextValidScan(s, s.nextPageWriteId + 1, ScanFuel(s))

\* buffer holds image pg; rv: pageNum; wbuf: the image as stamped with the page id
writePageDirect(s, pg, pageNum) ==
    [dbbufferSetValid([storageWritePage([s EXCEPT !.nextPageId = @ + 1], pageNum,
                                        [pg EXCEPT !.id = s.nextPageId])
                          EXCEPT !.prog[pageNum] = MinOf(@ + 1, 2), !.writes = @ + 1], pageNum)
        EXCEPT !.rv = pageNum, !.wbuf = [pg EXCEPT !.id = s.nextPageId]]

\* the write went to storage: the frame holds the image as written
WriteDone(s, f) == [s EXCEPT !.frames[f] = s.wbuf]

\* page p is outside the device, or in use, or named by a mapping to another page
TargetTaken(s, p) ==
    \/ p \notin DOMAIN s.freePages
    \/ s.freePages[p] = 0
    \/ \E i \in DOMAIN s.mappings : s.mappings[i].prevPage = p /\ s.mappings[i].currPage /= p

\* image pg is an interior node with a child pointer that a mapping entry of s names
\* as the previous page of another page
StalePointer(s, pg) ==
    /\ pg.interior
    /\ \E c \in 0..pg.count : \E i \in DOMAIN s.mappings :
           /\ s.mappings[i].prevPage = Rd(pg.vals, c)
           /\ s.mappings[i].currPage /= Rd(pg.vals, c)

\* s.rv is the page chosen by dbbufferNextValidPage
WriteAt(s, f) ==
    WriteDone(writePageDirect([s EXCEPT !.frames[f].id = s.nextPageId, !.nextPageId = @ + 1,
                                        !.takenWrites = @ + IF TargetTaken(s, s.rv) THEN 1 ELSE 0,
                                        !.staleWrites = @ + IF StalePointer(s, s.frames[f]) THEN 1 ELSE 0],
                              [s.frames[f] EXCEPT !.id = s.nextPageId], s.rv), f)

\* writes frame f at the next valid page
writePage(s, f) == WriteAt(dbbufferNextValidPage(s), f)

\* a 32-bit word as the model holds it: -1 is the word of all ones
WordBits(a) == IF a < 0 THEN WORD_ONES ELSE a

\* word a has a bit set that word b has clear
RECURSIVE SetsBit(_, _)
SetsBit(a, b) == a > 0 /\ (a % 2 > b % 2 \/ SetsBit(a \div 2, b \div 2))

\* image new has a bit set where image old has it clear
RaisesBit(old, new) ==
    \/ SetsBit(WordBits(new.id), WordBits(old.id)) \/ SetsBit(WordBits(new.prev), WordBits(old.prev))
    \/ SetsBit(new.count, old.count)
    \/ (new.root /\ ~old.root) \/ (new.interior /\ ~old.interior)
    \/ \E i \in DOMAIN new.bm1 : new.bm1[i] > old.bm1[i] \/ new.bm2[i] > old.bm2[i]
    \/ \E i \in DOMAIN new.keys : SetsBit(WordBits(new.keys[i]), WordBits(old.keys[i]))
    \/ \E i \in DOMAIN new.vals : SetsBit(WordBits(new.vals[i]), WordBits(old.vals[i]))

overWritePage(s, f, pageNum) ==
    LET s1 == [storageWritePage(s, pageNum, s.frames[f])
                  EXCEPT !.overwrites = @ + 1,
                         !.raised = @ + IF pageNum \in DOMAIN s.storage
                                           /\ RaisesBit(s.storage[pageNum], s.frames[f])
                                        THEN 1 ELSE 0]
        hit == {i \in 1..s.numPages-1 : s.status[i] = pageNum /\ pageNum /= 0}
    IN IF hit = {} THEN [s1 EXCEPT !.rv = pageNum]
       ELSE LET i == CHOOSE x \in hit : \A y \in hit : x <= y
            IN [s1 EXCEPT !.frames[i] = s.frames[f], !.rv = pageNum]

InitPage(mode) == FilledPage(mode, INT32_MAX, 1)

initBufferPage(s, pageNum) ==
    [s EXCEPT !.frames[pageNum] = InitPage(s.parameters), !.status[pageNum] = 0, !.rv = pageNum]

(***************************************************************************)
(* Tree: search inside a node (sorted layouts).                            *)
(***************************************************************************)
IdMinusOne == EMPTY_MAPPING      \* (id_t) -1

\* C integer division (truncation toward zero) by two
Half(a) == IF a >= 0 THEN a \div 2 ELSE 0 - ((0 - a) \div 2)

IsInteriorNode(s, buf) == buf.interior /\ s.levels /= 1

RECURSIVE InteriorBinarySearch(_, _, _, _)
InteriorBinarySearch(buf, key, first, last) ==
    IF first >= last THEN last
    ELSE LET middle == Half(first + last)
             compare == compareKey(key, Rd(buf.keys, middle))
         IN IF compare > 0 THEN InteriorBinarySearch(buf, key, middle + 1, last)
            ELSE IF compare = 0 THEN middle + 1
            ELSE InteriorBinarySearch(buf, key, first, middle)

RECURSIVE LeafBinarySearch(_, _, _, _, _)
LeafBinarySearch(buf, key, first, last, range) ==
    IF first > last
    THEN IF range = 1 THEN (IF last = 0 - 1 THEN 0 - 1 ELSE Half(first + last)) ELSE 0 - 1
    ELSE LET middle == Half(first + last)
             compare == compareKey(Rd(buf.keys, middle), key)
         IN IF compare < 0 THEN LeafBinarySearch(buf, key, middle + 1, last, range)
            ELSE IF compare = 0 THEN middle
            ELSE LeafBinarySearch(buf, key, first, middle - 1, range)

\* variant: a range search below the first key of a leaf returns slot 0
vmtreeSearchNodeSortedClamped(s, buf, key, range) ==
    IF IsInteriorNode(s, buf)
    THEN IF buf.count = 0 THEN 0
         ELSE IF buf.count = 1 THEN (IF compareKey(key, Rd(buf.keys, 0)) < 0 THEN 0 ELSE 1)
         ELSE InteriorBinarySearch(buf, key, 0,
                                   MinOf(buf.count, maxInteriorRecordsPerPage(s.parameters)))
    ELSE IF LeafBinarySearch(buf, key, 0, buf.count - 1, range) = 0 - 1 /\ range = 1 /\ buf.count > 0
         THEN 0
         ELSE LeafBinarySearch(buf, key, 0, buf.count - 1, range)

vmtreeSearchNodeSorted(s, buf, key, range) ==
    IF IsInteriorNode(s, buf)
    THEN IF buf.count = 0 THEN 0
         ELSE IF buf.count = 1 THEN (IF compareKey(key, Rd(buf.keys, 0)) < 0 THEN 0 ELSE 1)
         ELSE InteriorBinarySearch(buf, key, 0,
                                   MinOf(buf.count, maxInteriorRecordsPerPage(s.parameters)))
    ELSE LeafBinarySearch(buf, key, 0, buf.count - 1, range)

(***************************************************************************)
(* Tree: previous ids, stale pointers and mappings.                        *)
(***************************************************************************)
\* frame f holds the node; rv: the previous id stored or used
vmtreeUpdatePrev(s, f, currId) ==
    LET prevId == s.frames[f].prev
    IN IF prevId >= PREV_ID_CONSTANT \/ vmtreeGetMapping(s, prevId) /= currId
       THEN [s EXCEPT !.frames[f] = VMTREE_SET_PREV(@, currId), !.rv = currId]
       ELSE [s EXCEPT !.rv = prevId]

\* variant that rewrites the stale pointers and leaves their mappings in the table
RECURSIVE vmtreeUpdatePointersKeepsMappings(_, _, _, _)
vmtreeUpdatePointersKeepsMappings(s, f, start, end) ==
    IF start > end THEN s
    ELSE LET childIdx == Rd(s.frames[f].vals, start)
             newIdx == IF childIdx = s.savedMappingPrev THEN s.savedMappingCurr
                       ELSE vmtreeGetMapping(s, childIdx)
         IN vmtreeUpdatePointersKeepsMappings(
                IF newIdx /= childIdx
                THEN [s EXCEPT !.frames[f].vals = Put1(@, start, newIdx), !.num = @ + 1]
                ELSE s, f, start + 1, end)

RECURSIVE vmtreeUpdatePointers(_, _, _, _)
vmtreeUpdatePointers(s, f, start, end) ==
    IF start > end THEN s
    ELSE LET childIdx == Rd(s.frames[f].vals, start)
             newIdx == IF childIdx = s.savedMappingPrev THEN s.savedMappingCurr
                       ELSE vmtreeGetMapping(s, childIdx)
             s1 == IF newIdx /= childIdx
                   THEN vmtreeDeleteMapping([s EXCEPT !.frames[f].vals = Put1(@, start, newIdx),
                                                      !.num = @ + 1], childIdx)
                   ELSE s
         IN vmtreeUpdatePointers(s1, f, start + 1, end)

\* the callback dbbuffer.movePage is set to; frame f holds the moved page; moveCalls
\* counts its invocations
vmtreeMovePage(s, prev, curr, f) ==
    LET s1 == IF s.frames[f].interior
              THEN vmtreeUpdatePointers(s, f, 0, s.frames[f].count) ELSE s
        u == vmtreeUpdatePrev(s1, f, prev)
    IN [(IF s1.activePath[0] = prev THEN [s1 EXCEPT !.activePath[0] = curr]
         ELSE vmtreeAddMapping(u, u.rv, curr)) EXCEPT !.moveCalls = @ + 1]

RECURSIVE vmtreeFixMappings(_, _, _, _)
\* the ancestor of level l was written at s.rv; prevId: its previous id
FixMoved(s, prevId, l) ==
    IF l - 1 = 0 - 1 THEN [s EXCEPT !.activePath[0] = s.rv]
    ELSE vmtreeFixMappings(s, prevId, s.rv, l - 1)

\* frame 0 holds the ancestor of level l, s.rv is its previous id
FixRewrite(s, l) ==
    FixMoved(writePage([vmtreeUpdatePointers(s, 0, 0, s.frames[0].count)
                           EXCEPT !.savedMappingPrev = EMPTY_MAPPING, !.fixRewrites = @ + 1], 0),
             s.rv, l)

\* frame 0 has just received the ancestor of level l
FixAncestor(s, prevId, currId, l) ==
    FixRewrite(vmtreeUpdatePrev([s EXCEPT !.savedMappingPrev = prevId,
                                          !.savedMappingCurr = currId], 0, s.activePath[l]), l)

\* s.rv is the result of vmtreeAddMapping(prevId, currId)
FixAdded(s, prevId, currId, l) ==
    IF ~(s.rv = 0 - 1 /\ l >= 0) THEN [s EXCEPT !.mappingLost = @ \/ (s.rv = 0 - 1)]
    ELSE FixAncestor(readPageBuffer(s, s.activePath[l], 0), prevId, currId, l)

vmtreeFixMappings(s, prevId, currId, l) ==
    FixAdded(vmtreeAddMapping(s, prevId, currId), prevId, currId, l)

getChildPageId(s, buf, childNum) ==
    IF s.parameters /= NOR_OVERWRITE /\ childNum > buf.count THEN IdMinusOne
    ELSE vmtreeGetMapping(s, Rd(buf.vals, childNum))

(***************************************************************************)
(* Space manager: dbbufferEnsureSpace.                                     *)
(***************************************************************************)
EnsureFuel(s) == 2 * ((s.endDataPage + 1) \div EraseSizeInPages) + 2

\* free pages counted from the write cursor up to the end of the erased window
FreeAhead(s) ==
    LET numCheck == IF s.erasedEndPage >= s.nextPageWriteId
                    THEN s.erasedEndPage - s.nextPageWriteId
                    ELSE s.endDataPage - s.nextPageWriteId + s.erasedEndPage
    IN Cardinality({j \in 0..numCheck :
                       dbbufferIsFree(s, (s.nextPageWriteId + j) % (s.endDataPage + 1)) = 1})

\* classifies the pages of a block; moves: page id to restore (-1: mapping only) and its image
RECURSIVE ScanBlock(_, _, _, _)
\* page i of the block is live and was read into frame s.rv
ScanRead(s, i, endErase, moves) ==
    ScanBlock(s, i + 1, endErase, Append(moves, [page |-> i, img |-> s.frames[s.rv]]))

ScanBlock(s, i, endErase, moves) ==
    IF i > endErase THEN [s |-> s, moves |-> moves]
    ELSE LET response == vmtreeIsValid(s, i)
         IN IF response = 0 - 1 THEN ScanBlock(s, i + 1, endErase, moves)
            ELSE IF response = 1
            THEN ScanBlock(s, i + 1, endErase,
                           Append(moves, [page |-> 0 - 1, img |-> ErasedPage(s.parameters)]))
            ELSE ScanRead(readPage(s, i), i, endErase, moves)

\* variant that leaves the erased block empty
RestoreBlockDropsPages(s, moves, i) == s

RECURSIVE RestoreBlock(_, _, _)
RestoreBlock(s, moves, i) ==
    IF i > Len(moves) THEN s
    ELSE IF moves[i].page /= 0 - 1
    THEN RestoreBlock([writePageDirect(s, moves[i].img, moves[i].page) EXCEPT !.restores = @ + 1],
                      moves, i + 1)
    ELSE RestoreBlock(s, moves, i + 1)

\* unsigned 32-bit difference
USub(a, b) == IF a >= b THEN a - b ELSE WORD_ONES - (b - a) + 1

RECURSIVE dbbufferEnsureSpace(_, _, _)
RECURSIVE FindErase(_, _, _, _)
\* rv: 1 when at least `pages` free pages lie ahead of the cursor, 0 when none can be freed
dbbufferEnsureSpace(s, pages, fuel) ==
    IF FreeAhead(s) >= pages THEN [s EXCEPT !.rv = 1]
    ELSE FindErase(s, pages, 0, fuel)

\* the block was full of live pages and is skipped; total: the pages looked at so far
FindSkipped(s, pages, total, fuel) ==
    IF total >= USub(s.endDataPage, pages) THEN [s EXCEPT !.rv = 0]
    ELSE FindErase(s, pages, total, fuel - 1)

\* r: the scan of block startErase..endErase
FindScanned(r, pages, totalPagesLookedAt, fuel, startErase, endErase) ==
    IF Len(r.moves) >= EraseSizeInPages
    THEN FindSkipped([r.s EXCEPT !.erasedEndPage = endErase, !.skips = @ + 1], pages,
                     totalPagesLookedAt + EraseSizeInPages, fuel)
    ELSE dbbufferEnsureSpace([RestoreBlock(erasePages(r.s, startErase, endErase), r.moves, 1)
                                 EXCEPT !.erasedEndPage = endErase], pages, fuel - 1)

FindErase(s, pages, totalPagesLookedAt, fuel) ==
    IF fuel = 0 THEN [s EXCEPT !.hang = TRUE, !.rv = 0]
    ELSE LET start0 == s.erasedEndPage + 1
             wrap == start0 + EraseSizeInPages - 1 > s.endDataPage
             startErase == IF wrap THEN 0 ELSE start0
             endErase == IF wrap THEN EraseSizeInPages - 1 ELSE start0 + EraseSizeInPages - 1
         IN FindScanned(ScanBlock([s EXCEPT !.erasedStartPage = start0], startErase, endErase, <<>>),
                        pages, totalPagesLookedAt, fuel, startErase, endErase)

(***************************************************************************)
(* Tree: search inside a node of the overwrite layout, and the dispatch.   *)
(***************************************************************************)
SlotValid(buf, c) == Rd(buf.bm1, c) = 0 /\ Rd(buf.bm2, c) = 1

vmtreeSearchNodeOverwrite(s, buf, key, range) ==
    IF IsInteriorNode(s, buf)
    THEN LET above == {c \in 0..maxInteriorRecordsPerPage(s.parameters)-1 :
                          SlotValid(buf, c) /\ compareKey(key, Rd(buf.keys, c)) < 0}
         IN IF above = {} THEN 0
            ELSE CHOOSE c \in above :
                    \A d \in above : \/ Rd(buf.keys, c) < Rd(buf.keys, d)
                                     \/ (Rd(buf.keys, c) = Rd(buf.keys, d) /\ c <= d)
    ELSE LET same == {c \in 0..maxRecordsPerPage(s.parameters)-1 :
                         SlotValid(buf, c) /\ compareKey(key, Rd(buf.keys, c)) = 0}
         IN IF same = {} THEN 0 ELSE CHOOSE c \in same : \A d \in same : c <= d

vmtreeSearchNode(s, buf, key, range) ==
    IF s.parameters = NOR_OVERWRITE THEN vmtreeSearchNodeOverwrite(s, buf, key, range)
    ELSE vmtreeSearchNodeSorted(s, buf, key, range)

\* follows child pointers from level l down to the leaf level; rv: the leaf id or (id_t) -1
RECURSIVE Descend(_, _, _, _, _, _)
\* the node of level l is in frame s.rv
DescendRead(s, key, l, range, track) ==
    LET buf == s.frames[s.rv]
        child == getChildPageId(s, buf, vmtreeSearchNode(s, buf, key, range))
    IN IF child = IdMinusOne THEN [s EXCEPT !.rv = IdMinusOne]
       ELSE Descend(IF track THEN [s EXCEPT !.activePath[l + 1] = child] ELSE s,
                    key, l + 1, child, range, track)

Descend(s, key, l, nextId, range, track) ==
    IF l >= s.levels - 1 THEN [s EXCEPT !.rv = nextId]
    ELSE DescendRead(readPage(s, nextId), key, l, range, track)

NoData == 0 - 1

\* the leaf is in frame s.rv
GetLeaf(s, key) ==
    LET buf == s.frames[s.rv]
        idx == vmtreeSearchNode(s, buf, key, 0)
    IN IF idx /= 0 - 1
       THEN [s EXCEPT !.rv = 0, !.data = Rd(buf.vals, idx), !.src = s.rv]
       ELSE [s EXCEPT !.rv = 0 - 1, !.data = NoData]

\* s.rv is the leaf id the descent ended at
GetDescended(s, key) ==
    IF s.rv = IdMinusOne THEN [s EXCEPT !.rv = 0 - 1, !.data = NoData]
    ELSE GetLeaf(readPage(s, s.rv), key)

vmtreeGet(s, key) == GetDescended(Descend(s, key, 0, s.activePath[0], 0, FALSE), key)

(***************************************************************************)
(* Iterator (vmtreeInitIterator, vmtreeNext).  An iterator is a record;    *)
(* currentBuffer is the frame the leaf was read into (-1: NULL).  The      *)
(* element type of lastIterRec is declared in vmtree.h: signedRec tells    *)
(* whether it is a signed byte or the unsigned count type.                 *)
(***************************************************************************)
NullBuffer == 0 - 1

\* a search result as stored in lastIterRec: (id_t) -1 narrows to -1 or to 0xFFFF
NarrowRec(itr, childNum) ==
    IF childNum = 0 - 1 THEN (IF itr.signedRec THEN 0 - 1 ELSE COUNT_ONES) ELSE childNum

\* the low and high halves of a 32-bit word of the model
LowHalfWord(w) == IF w = WORD_ONES \/ w = INT32_MAX THEN COUNT_ONES ELSE w % (COUNT_ONES + 1)
HighHalfWord(w) ==
    IF w = WORD_ONES THEN COUNT_ONES ELSE IF w = INT32_MAX THEN COUNT_ONES \div 2
    ELSE w \div (COUNT_ONES + 1)

\* the signed 32-bit word whose low half is lo and whose high half is hi
WordOf(lo, hi) ==
    IF hi > COUNT_ONES \div 2 THEN (hi - (COUNT_ONES + 1)) * (COUNT_ONES + 1) + lo
    ELSE hi * (COUNT_ONES + 1) + lo

\* the key and the data of leaf slot i of the sorted layout; slot -1 lies in the header:
\* bytes 2..5 (id high half, prev low half) and bytes 6..9 (prev high half, count)
RecKey(buf, i) ==
    IF i = 0 - 1 THEN WordOf(HighHalfWord(buf.id), LowHalfWord(buf.prev)) ELSE Rd(buf.keys, i)
RecData(buf, i) ==
    IF i = 0 - 1 THEN WordOf(HighHalfWord(buf.prev), buf.count) ELSE Rd(buf.vals, i)

\* the descent of vmtreeInitIterator from level l; result: [s, it]
RECURSIVE IterDescend(_, _, _, _)
\* the node of level l is in frame s.rv; childNum: the search result for minKey
IterDescendAt(s, itr, l, childNum) ==
    IF l >= s.levels - 1
    THEN [s |-> s, it |-> [itr EXCEPT !.currentBuffer = s.rv,
                                      !.lastIterRec[l] = NarrowRec(itr, childNum)]]
    ELSE LET child == getChildPageId(s, s.frames[s.rv], childNum)
         IN IF child = IdMinusOne THEN [s |-> s, it |-> itr]
            ELSE IterDescend(s, [itr EXCEPT !.lastIterRec[l] = NarrowRec(itr, childNum)],
                             l + 1, child)

\* the node of level l is in frame s.rv
IterDescendRead(s, itr, l) ==
    IterDescendAt(s, itr, l, vmtreeSearchNode(s, s.frames[s.rv], itr.minKey, 1))

IterDescend(s, itr, l, nextId) ==
    IterDescendRead(readPage(s, nextId), [itr EXCEPT !.activeIteratorPath[l] = nextId], l)

vmtreeInitIterator(s, itr) ==
    IterDescend(s, [itr EXCEPT !.currentBuffer = NullBuffer], 0, s.activePath[0])

\* the climb of vmtreeNext from level l towards the root; l = -1: the tree is exhausted
RECURSIVE IterAscend(_, _, _)
\* the node of level l is in frame s.rv
IterAscendRead(s, itr, l) ==
    IF itr.lastIterRec[l] < s.frames[s.rv].count
    THEN [s |-> s, it |-> [itr EXCEPT !.lastIterRec[l] = @ + 1], l |-> l, buf |-> s.rv]
    ELSE IterAscend(s, [itr EXCEPT !.lastIterRec[l] = 0], l - 1)

IterAscend(s, itr, l) ==
    IF l < 0 THEN [s |-> s, it |-> itr, l |-> 0 - 1, buf |-> NullBuffer]
    ELSE IterAscendRead(readPage(s, itr.activeIteratorPath[l]), itr, l)

\* the way back down of vmtreeNext from level l, whose node is in frame f
RECURSIVE IterDown(_, _, _, _)
\* the child nextPage of level l is in frame s.rv
IterDownRead(s, itr, l, nextPage) ==
    IterDown(s, [itr EXCEPT !.activeIteratorPath[l + 1] = nextPage], l + 1, s.rv)

IterDownTo(s, itr, l, nextPage) ==
    IF nextPage = IdMinusOne THEN [s |-> s, it |-> itr, ok |-> FALSE]
    ELSE IterDownRead(readPage(s, nextPage), itr, l, nextPage)

IterDown(s, itr, l, f) ==
    IF l >= s.levels - 1 THEN [s |-> s, it |-> [itr EXCEPT !.currentBuffer = f], ok |-> TRUE]
    ELSE IterDownTo(s, itr, l, getChildPageId(s, s.frames[f], itr.lastIterRec[l]))

IterFuel == MaxKey + 3

IterEnd(s, itr) == [s |-> [s EXCEPT !.rv = 0], it |-> itr, key |-> NoKey, data |-> NoData, slot |-> 0]

\* the record loop of vmtreeNext; result: [s, it, key, data, slot], s.rv = 1: a record is returned
RECURSIVE IterLoop(_, _, _)
\* the record at slot lastIterRec of the current leaf
IterRecordAt(s, itr, fuel, l, buf, slot) ==
    IF compareKey(RecKey(buf, slot), itr.minKey) < 0
    THEN IterLoop(s, [itr EXCEPT !.lastIterRec[l] = slot + 1], fuel - 1)
    ELSE IF compareKey(RecKey(buf, slot), itr.maxKey) > 0
    THEN IterEnd(s, [itr EXCEPT !.lastIterRec[l] = slot + 1])
    ELSE [s |-> [s EXCEPT !.rv = 1], it |-> [itr EXCEPT !.lastIterRec[l] = slot + 1],
          key |-> RecKey(buf, slot), data |-> RecData(buf, slot), slot |-> slot]

IterRecord(s, itr, fuel) ==
    IterRecordAt(s, itr, fuel, s.levels - 1, s.frames[itr.currentBuffer],
                 itr.lastIterRec[s.levels - 1])

\* d: the result of the way back down
IterDescended(d, fuel) == IF ~d.ok THEN IterEnd(d.s, d.it) ELSE IterRecord(d.s, d.it, fuel)

\* a: the result of the climb
IterAscended(a, fuel) ==
    IF a.l = 0 - 1 THEN IterEnd(a.s, a.it)
    ELSE IterDescended(IterDown(a.s, a.it, a.l, a.buf), fuel)

IterLoop(s, itr, fuel) ==
    IF fuel = 0 THEN IterEnd([s EXCEPT !.hang = TRUE], itr)
    ELSE IF itr.lastIterRec[s.levels - 1] >= s.frames[itr.currentBuffer].count
    THEN IterAscended(IterAscend(s, [itr EXCEPT !.lastIterRec[s.levels - 1] = 0], s.levels - 2), fuel)
    ELSE IterRecord(s, itr, fuel)

vmtreeNext(s, itr) ==
    IF itr.currentBuffer = NullBuffer THEN IterEnd(s, itr) ELSE IterLoop(s, itr, IterFuel)

(***************************************************************************)
(* vmtreePut, sorted layouts.                                              *)
(***************************************************************************)
SetRec(buf, i, key, data) ==
    [buf EXCEPT !.keys = Put1(@, i, key), !.vals = Put1(@, i, data)]

MoveRecs(buf, dst, src, n) ==
    [buf EXCEPT !.keys = Move(@, dst, src, n), !.vals = Move(@, dst, src, n)]

\* a copy that runs from the last slot to the first and reads what it has written
RECURSIVE CopyBackward(_, _, _, _)
CopyBackward(f, dst, src, i) ==
    IF i < 0 THEN f ELSE CopyBackward(Put1(f, dst + i, Rd(f, src + i)), dst, src, i - 1)

\* memcpy of n slots from src to dst inside one array: ranges that overlap are undefined
\* behaviour, the copy then runs forward or (back) backward
CopySlots(f, dst, src, n, back) ==
    IF back /\ n > 0 /\ dst < src /\ dst + n > src THEN CopyBackward(f, dst, src, n - 1)
    ELSE Move(f, dst, src, n)

\* memcpy of n records from src to dst inside one leaf
CopyRecs(buf, dst, src, n, back) ==
    [buf EXCEPT !.keys = CopySlots(@, dst, src, n, back), !.vals = CopySlots(@, dst, src, n, back)]

\* the image of a new root over left and right
RootImage(b, left, right, tempKey) ==
    [VMTREE_SET_PREV(VMTREE_SET_ROOT(VMTREE_SET_COUNT(b, 1)), PREV_ID_CONSTANT)
        EXCEPT !.keys = Put1(@, 0, tempKey), !.vals = Put1(Put1(@, 0, left), 1, right)]

\* the new root was written at s.rv
RootWritten(s) == [s EXCEPT !.activePath[0] = s.rv, !.levels = @ + 1, !.rv = 0]

\* frame 0 is initialised for the new root
RootFrame(s, left, right, tempKey) ==
    RootWritten(writePage([s EXCEPT !.frames[0] = RootImage(@, left, right, tempKey)], 0))

\* new root over left and right; rv: 0
AddNewRoot(s, left, right, tempKey) == RootFrame(initBufferPage(s, 0), left, right, tempKey)

\* interior image b with tempKey and its two children inserted at childNum
InsertPair(b, childNum, count, left, right, tempKey) ==
    VMTREE_INC_COUNT(
        [b EXCEPT !.keys = Put1(Move(@, childNum + 1, childNum, count - childNum), childNum, tempKey),
                  !.vals = Put1(Put1(Move(@, childNum + 1, childNum, count - childNum + 1),
                                     childNum, left), childNum + 1, right)])

\* the parent was written at s.rv; prevId: its previous id
\* variant without the special case of the root: the new root gets a mapping like any node
InteriorInsertWrittenMapsRoot(s, prevId, l) ==
    [vmtreeFixMappings([s EXCEPT !.activePath[0] = IF l = 0 THEN s.rv ELSE @], prevId, s.rv, l - 1)
        EXCEPT !.rv = 0]

InteriorInsertWritten(s, prevId, l) ==
    IF l = 0 THEN [s EXCEPT !.activePath[0] = s.rv, !.rv = 0]
    ELSE [vmtreeFixMappings(s, prevId, s.rv, l - 1) EXCEPT !.rv = 0]

\* frame 0 holds the parent with the pair inserted, s.rv is its previous id
InteriorInsertWrite(s, l, parent) ==
    IF s.parameters /= OVERWRITE THEN InteriorInsertWritten(writePage(s, 0), s.rv, l)
    ELSE [overWritePage(s, 0, parent) EXCEPT !.rv = 0]

\* the stale pointers of the parent in frame 0 are updated
InteriorInsertAt(s, l, parent, count, childNum, left, right, tempKey) ==
    InteriorInsertWrite(
        vmtreeUpdatePrev([s EXCEPT !.frames[0] = InsertPair(@, childNum, count, left, right, tempKey)],
                         0, parent), l, parent)

\* interior node in frame 0 has room: insert tempKey with its two children and write it
InteriorInsert(s, l, parent, count, left, right, tempKey) ==
    InteriorInsertAt(vmtreeUpdatePointers(s, 0, 0, count), l, parent, count,
                     vmtreeSearchNode(s, s.frames[0], tempKey, 1), left, right, tempKey)

\* a split wrote its right half at s.rv; left: the id of the left half, tempKey: the key to promote
SplitDone(s, left, tempKey) == [s EXCEPT !.left = left, !.right = s.rv, !.tempKey = tempKey]

\* interior split, new pair in the left half: the image of the left half
LowLeftImage(b, childNum, mid, left, right, tempKey) ==
    [b EXCEPT !.keys = Put1(Move(@, childNum + 1, childNum, mid - childNum), childNum, tempKey),
              !.vals = Put1(Put1(Move(@, childNum + 2, childNum + 1, mid - childNum),
                                 childNum, left), childNum + 1, right)]

\* interior split, new pair in the left half: the image of the right half
LowRightImage(b, count, mid, tempPtr) ==
    VMTREE_SET_INTERIOR(
        VMTREE_SET_COUNT([b EXCEPT !.keys = Move(@, 0, mid + 1, count - mid - 1),
                                   !.vals = Move(Put1(@, 0, tempPtr), 1, mid + 2, count - mid - 1)],
                         count - mid - 1))

\* the left half was written at s.rv
SplitLowRight(s, count, mid, tempData, tempPtr) ==
    SplitDone(writePage([s EXCEPT !.frames[0] = LowRightImage(@, count, mid, tempPtr)], 0),
              s.rv, tempData)

\* the stale pointers of the node in frame 0 are updated
SplitLowLeft(s, count, childNum, mid, left, right, tempKey) ==
    SplitLowRight(
        writePage([s EXCEPT !.frames[0] = LowLeftImage(@, childNum, mid, left, right, tempKey)], 0),
        count, mid, Rd(s.frames[0].keys, mid), Rd(s.frames[0].vals, mid + 1))

SplitLow(s, count, childNum, mid, left, right, tempKey) ==
    SplitLowLeft(
        vmtreeUpdatePointers(
            [s EXCEPT !.frames[0] = VMTREE_SET_INTERIOR(VMTREE_SET_COUNT(@, mid + 1))], 0, 0, count),
        count, childNum, mid, left, right, tempKey)

\* interior split, new pair in the right half: the image of the right half
HighRightImage(b, count, childNum, mid, left, right, tempKey, back) ==
    LET b3 == [b EXCEPT !.keys = Move(@, 0, mid + 1, childNum - mid - 1),
                        !.vals = Move(@, 0, mid + 1, childNum - mid - 1)]
        b4 == IF childNum > mid
              THEN [b3 EXCEPT !.keys = Put1(@, childNum - mid - 1, tempKey),
                              !.vals = Put1(@, childNum - mid - 1, left)]
              ELSE b3
        b5 == [b4 EXCEPT !.vals = Put1(@, childNum - mid, right)]
        b6 == [b5 EXCEPT !.keys = CopySlots(@, childNum - mid, childNum, count - childNum, back),
                         !.vals = CopySlots(@, childNum - mid + 1, childNum + 1, count - childNum,
                                            back)]
    IN VMTREE_SET_INTERIOR(VMTREE_SET_COUNT(b6, count - mid))

\* the left half was written at s.rv
SplitHighRight(s, count, childNum, mid, left, right, tempKey, tempData) ==
    SplitDone(
        writePage([s EXCEPT !.frames[0] = HighRightImage(@, count, childNum, mid, left, right, tempKey,
                                                         s.copyBack)], 0),
        s.rv, tempData)

\* the stale pointers of the node in frame 0 are updated
SplitHighLeft(s, count, childNum, mid, left, right, tempKey) ==
    SplitHighRight(
        writePage([s EXCEPT !.frames[0] = IF childNum = mid THEN [@ EXCEPT !.vals = Put1(@, mid, left)]
                                          ELSE @], 0),
        count, childNum, mid, left, right, tempKey,
        IF childNum = mid THEN tempKey ELSE Rd(s.frames[0].keys, mid))

SplitHigh(s, count, childNum, mid, left, right, tempKey) ==
    SplitHighLeft(
        vmtreeUpdatePointers(
            [s EXCEPT !.frames[0] = VMTREE_SET_INTERIOR(VMTREE_SET_COUNT(@, mid))], 0, 0, count),
        count, childNum, mid, left, right, tempKey)

InteriorHalves(s, count, childNum, left, right, tempKey) ==
    IF childNum < Half(count)
    THEN SplitLow(s, count, childNum, IF count % 2 = 0 THEN Half(count) - 1 ELSE Half(count),
                  left, right, tempKey)
    ELSE SplitHigh(s, count, childNum, Half(count), left, right, tempKey)

\* isplits: the keys and pointers of the node with its pointers updated, the pair that is inserted, the ids of the
\* two halves and the promoted key
InteriorSplitAt(s, count, childNum, left, right, tempKey) ==
    LET r == InteriorHalves(s, count, childNum, left, right, tempKey)
        u == vmtreeUpdatePointers(s, 0, 0, count)
        sp == [keys |-> SlotsOf(u.frames[0].keys, count),
               ptrs |-> SlotsOf(u.frames[0].vals, count + 1), count |-> count,
               childNum |-> childNum, key |-> tempKey, newLeft |-> left, newRight |-> right,
               left |-> r.left, right |-> r.right, promoted |-> r.tempKey]
    IN [r EXCEPT !.isplits = s.isplits \o <<sp>>]

\* interior node in frame 0 is full: split it; result: the state with left, right and tempKey
InteriorSplit(s, count, left, right, tempKey) ==
    InteriorSplitAt([s EXCEPT !.frames[0] = VMTREE_SET_PREV(@, PREV_ID_CONSTANT)], count,
                    IF count > 0 THEN vmtreeSearchNode(s, s.frames[0], tempKey, 1) ELSE 0 - 1,
                    left, right, tempKey)

\* adds the pointer pair of a split to the ancestors, from level l up to the root
RECURSIVE ParentLoop(_, _, _, _, _)
\* s: the state a split ended in
ParentNext(s, l) == ParentLoop(s, l, s.left, s.right, s.tempKey)

\* the parent of level l is in frame 0
ParentRead(s, l, parent, left, right, tempKey) ==
    IF s.frames[0].count < maxInteriorRecordsPerPage(s.parameters)
    THEN InteriorInsert(s, l, parent, s.frames[0].count, left, right, tempKey)
    ELSE ParentNext(InteriorSplit(s, s.frames[0].count, left, right, tempKey), l - 1)

ParentLoop(s, l, left, right, tempKey) ==
    IF l < 0 THEN AddNewRoot(s, left, right, tempKey)
    ELSE ParentRead(readPageBuffer(dbbufferSetFree(s, s.activePath[l]), s.activePath[l], 0),
                    l, s.activePath[l], left, right, tempKey)

\* leaf image b with the record inserted after slot childNum
LeafImage(b, childNum, count, key, data) ==
    VMTREE_INC_COUNT(SetRec(MoveRecs(b, childNum + 2, childNum + 1, count - childNum - 1),
                            childNum + 1, key, data))

\* the root leaf was written at s.rv
LeafRootWritten(s) == [s EXCEPT !.activePath[0] = s.rv, !.rv = 0]

\* the leaf was written at s.rv; prevId: its previous id
LeafWritten(s, prevId) == [vmtreeFixMappings(s, prevId, s.rv, s.levels - 2) EXCEPT !.rv = 0]

\* frame 0 holds the leaf, s.rv is its previous id
LeafWrite(s) == LeafWritten(writePage(s, 0), s.rv)

\* frame 0 holds the leaf with the record inserted; the old page is free
LeafCopy(s, nextId) ==
    IF s.levels = 1 THEN LeafRootWritten(writePage(s, 0))
    ELSE LeafWrite(vmtreeUpdatePrev(s, 0, nextId))

\* frame 0 holds the leaf with the record inserted
LeafStore(s, nextId) ==
    IF s.parameters /= OVERWRITE THEN LeafCopy(dbbufferSetFree(s, nextId), nextId)
    ELSE [overWritePage(s, 0, nextId) EXCEPT !.rv = 0]

\* leaf in frame 0 has room: shift, insert, write
LeafInsert(s, nextId, childNum, count, key, data) ==
    LeafStore([s EXCEPT !.frames[0] = LeafImage(@, childNum, count, key, data)], nextId)

\* leaf split, new record in the left half: the image of the left half
LeafLowLeft(b, childNum, mid, key, data) ==
    SetRec(MoveRecs(VMTREE_SET_COUNT(VMTREE_SET_PREV(b, PREV_ID_CONSTANT), mid + 1),
                    childNum + 2, childNum + 1, mid - childNum - 1),
           childNum + 1, key, data)

\* leaf split, new record in the left half: the image of the right half
LeafLowRight(b, count, mid, tempKey, tempData, back) ==
    VMTREE_SET_COUNT(CopyRecs(SetRec(b, 0, tempKey, tempData), 1, mid + 1, count - mid, back),
                     count - mid)

\* leaf split, new record in the right half: the image of the right half
LeafHighRight(b, childNum, count, mid, key, data) ==
    VMTREE_SET_COUNT(
        MoveRecs(SetRec(MoveRecs(b, 0, mid + 1, childNum - mid), childNum - mid, key, data),
                 childNum - mid + 1, childNum + 1, count - childNum - 1),
        count - mid)

\* the left half was written at s.rv
LeafSplitLowRight(s, count, mid, tempKey, tempData) ==
    SplitDone(writePage([s EXCEPT !.frames[0] = LeafLowRight(@, count, mid, tempKey, tempData,
                                                             s.copyBack)], 0),
              s.rv, tempKey)

\* the left half was written at s.rv
LeafSplitHighRight(s, childNum, count, mid, key, data) ==
    SplitDone(writePage([s EXCEPT !.frames[0] = LeafHighRight(@, childNum, count, mid, key, data)], 0),
              s.rv, IF childNum = mid THEN key ELSE Rd(s.frames[0].keys, mid + 1))

\* leaf in frame 0 is full: write the two halves; result: the state with left, right and tempKey
LeafHalves(s, childNum, count, key, data) ==
    IF childNum < Half(count)
    THEN LeafSplitLowRight(
             writePage([s EXCEPT !.frames[0] = LeafLowLeft(@, childNum, Half(count), key, data)], 0),
             count, Half(count), Rd(s.frames[0].keys, Half(count)), Rd(s.frames[0].vals, Half(count)))
    ELSE LeafSplitHighRight(
             writePage([s EXCEPT !.frames[0] = VMTREE_SET_COUNT(VMTREE_SET_PREV(@, PREV_ID_CONSTANT),
                                                                Half(count) + 1)], 0),
             childNum, count, Half(count), key, data)

\* split: the full leaf, the new record, the ids of the two halves and the promoted key
LeafSplit(s, childNum, count, key, data) ==
    LET r == LeafHalves(s, childNum, count, key, data)
    IN [r EXCEPT !.split = <<[full |-> s.frames[0], key |-> key, data |-> data,
                              left |-> r.left, right |-> r.right, promoted |-> r.tempKey]>>]

\* the leaf nextId is in frame 0
PutLeaf(s, nextId, key, data) ==
    LET count == s.frames[0].count
        childNum == IF count > 0 THEN vmtreeSearchNode(s, s.frames[0], key, 1) ELSE 0 - 1
    IN IF count < maxRecordsPerPage(s.parameters)
       THEN LeafInsert(s, nextId, childNum, count, key, data)
       ELSE ParentNext(LeafSplit(s, childNum, count, key, data), s.levels - 2)

\* s.rv is the leaf id the descent ended at
PutDescended(s, key, data) ==
    IF s.rv = IdMinusOne THEN [s EXCEPT !.rv = 0 - 1]
    ELSE PutLeaf(readPageBuffer(s, s.rv, 0), s.rv, key, data)

\* the body of vmtreePut after the capacity check, sorted layouts; rv: 0 or -1
vmtreePutSorted(s, key, data) ==
    PutDescended(Descend(s, key, 0, s.activePath[0], 1, TRUE), key, data)

(***************************************************************************)
(* vmtreePutNorOverwrite and its helpers (overwrite layout).               *)
(***************************************************************************)
VMTREE_SET_NOR_INTERIOR(pg) == [pg EXCEPT !.interior = TRUE]
VMTREE_SET_ROOT_NOR(pg) == [pg EXCEPT !.root = TRUE, !.interior = TRUE]

\* insertion step shared by vmtreeInsertLeaf and the insertion sorts
RECURSIVE InsertSorted(_, _, _, _)
InsertSorted(buf, c, key, data) ==
    IF c >= 0 /\ compareKey(key, Rd(buf.keys, c)) < 0
    THEN InsertSorted(SetRec(buf, c + 1, Rd(buf.keys, c), Rd(buf.vals, c)), c - 1, key, data)
    ELSE SetRec(buf, c + 1, key, data)

vmtreeInsertLeaf(buf, count, key, data) == InsertSorted(buf, count - 1, key, data)

RECURSIVE SortRecs(_, _, _)
SortRecs(buf, c, count) ==
    IF c >= count THEN buf
    ELSE SortRecs(InsertSorted(buf, c - 1, Rd(buf.keys, c), Rd(buf.vals, c)), c + 1, count)

\* moves the valid records before the first empty slot to the front; result: buf, count
RECURSIVE CompactRecs(_, _, _, _)
CompactRecs(buf, c, count, cap) ==
    IF c >= cap \/ Rd(buf.bm1, c) = 1 THEN [buf |-> buf, count |-> count]
    ELSE IF Rd(buf.bm2, c) = 1
    THEN CompactRecs(IF count < c THEN SetRec(buf, count, Rd(buf.keys, c), Rd(buf.vals, c)) ELSE buf,
                     c + 1, count + 1, cap)
    ELSE CompactRecs(buf, c + 1, count, cap)

SetCountBits(buf, count, cap) ==
    [buf EXCEPT !.bm1 = [c \in DOMAIN @ |-> IF c < count THEN 0 ELSE IF c < cap THEN 1 ELSE @[c]],
                !.bm2 = [c \in DOMAIN @ |-> IF c < count \/ c < cap THEN 1 ELSE @[c]]]

vmtreeSetCountBitsLeaf(s, buf, count) == SetCountBits(buf, count, maxRecordsPerPage(s.parameters))

vmtreeSetCountBitsInterior(s, buf, count) ==
    SetCountBits(buf, count, maxInteriorRecordsPerPage(s.parameters))

vmtreeSetCountBitInterior(buf, loc) == [buf EXCEPT !.bm1 = Put1(@, loc, 0)]

\* variant: the leaf sort sets the bitmaps for its count, as the interior sort does
vmtreeSortBlockNorOverwriteSetsBits(s, buf) ==
    LET r == CompactRecs(buf, 0, 0, maxRecordsPerPage(s.parameters))
    IN [buf |-> SortRecs(vmtreeSetCountBitsLeaf(s, r.buf, r.count), 1, r.count),
        count |-> r.count]

vmtreeSortBlockNorOverwrite(s, buf) ==
    LET r == CompactRecs(buf, 0, 0, maxRecordsPerPage(s.parameters))
    IN [buf |-> SortRecs(r.buf, 1, r.count), count |-> r.count]

vmtreeSortInteriorBlockNorOverwrite(s, buf) ==
    LET r == CompactRecs(buf, 0, 0, maxInteriorRecordsPerPage(s.parameters))
    IN [buf |-> SortRecs(vmtreeSetCountBitsInterior(s, r.buf, r.count), 1, r.count),
        count |-> r.count]

\* the first slot that is neither valid nor used (cap: none)
FirstEmptySlot(buf, cap) ==
    LET empties == {c \in 0..cap-1 : ~SlotValid(buf, c) /\ Rd(buf.bm1, c) = 1}
    IN IF empties = {} THEN cap ELSE CHOOSE c \in empties : \A d \in empties : c <= d

\* the valid slot before stop with the smallest key above key (0: none)
MinKeySlot(buf, key, stop) ==
    LET above == {c \in 0..stop-1 : SlotValid(buf, c) /\ compareKey(key, Rd(buf.keys, c)) < 0}
    IN IF above = {} THEN 0
       ELSE CHOOSE c \in above :
               \A d \in above : \/ Rd(buf.keys, c) < Rd(buf.keys, d)
                                \/ (Rd(buf.keys, c) = Rd(buf.keys, d) /\ c <= d)

\* the first free slot in from..cap-1 (-1: none)
FirstOpenSlot(buf, from, cap) ==
    LET open == {c \in from..cap-1 : Rd(buf.bm1, c) = 1 /\ Rd(buf.bm2, c) = 1}
    IN IF open = {} THEN 0 - 1 ELSE CHOOSE c \in open : \A d \in open : c <= d

\* b1 holds key and left at firstloc; c2: the slot for the displaced key and right
InsertInteriorSecond(b1, firstloc, c2, loc, right) ==
    IF c2 = 0 - 1 THEN [buf |-> [b1 EXCEPT !.bm1 = Put1(@, firstloc, 1)], ok |-> 0]
    ELSE [buf |-> [b1 EXCEPT !.bm1 = Put1(@, c2, 0),
                             !.keys = Put1(@, c2, Rd(b1.keys, loc)),
                             !.vals = Put1(@, c2, right),
                             !.bm2 = Put1(@, loc, 0)],
          ok |-> 1]

InsertInteriorFirstAt(b1, cap, firstloc, loc, right) ==
    InsertInteriorSecond(b1, firstloc, FirstOpenSlot(b1, firstloc + 1, cap), loc, right)

InsertInteriorFirst(buf, cap, firstloc, loc, key, left, right) ==
    IF firstloc = 0 - 1 THEN [buf |-> buf, ok |-> 0]
    ELSE InsertInteriorFirstAt([buf EXCEPT !.bm1 = Put1(@, firstloc, 0),
                                           !.keys = Put1(@, firstloc, key),
                                           !.vals = Put1(@, firstloc, left)],
                               cap, firstloc, loc, right)

InsertInteriorFrom(buf, cap, stop, key, left, right) ==
    InsertInteriorFirst(buf, cap, FirstOpenSlot(buf, stop, cap), MinKeySlot(buf, key, stop),
                        key, left, right)

\* result: buf, ok (1: both entries stored, 0: no room)
vmtreeInsertInterior(s, buf, key, left, right) ==
    InsertInteriorFrom(buf, maxInteriorRecordsPerPage(s.parameters),
                       FirstEmptySlot(buf, maxInteriorRecordsPerPage(s.parameters)),
                       key, left, right)

\* the slot before which key goes among the first count keys (count: after all)
InteriorNewSlot(buf, count, key) ==
    LET before == {c \in 0..count-1 : compareKey(key, Rd(buf.keys, c)) < 0}
    IN IF before = {} THEN count ELSE CHOOSE x \in before : \A y \in before : x <= y

InsertInteriorNewAt(buf, count, c, key, left, right) ==
    [(IF count > 0 THEN MoveRecs(buf, c + 1, c, count - c) ELSE buf)
        EXCEPT !.keys = Put1(@, c, key), !.vals = Put1(Put1(@, c, left), c + 1, right)]

vmtreeInsertInteriorNew(buf, count, key, left, right) ==
    InsertInteriorNewAt(buf, count, InteriorNewSlot(buf, count, key), key, left, right)

\* the left half of a split leaf: b0 with the first mid+1 slots in use
NorLeafLeft(s, b0, mid) == VMTREE_SET_LEAF(vmtreeSetCountBitsLeaf(s, b0, mid + 1))

\* the left half was written at s.rv; the new record went into it
NorLeafLowRight(s, count, mid, tempKey, tempData) ==
    SplitDone(
        writePage([s EXCEPT !.frames[0] =
                      vmtreeSetCountBitsLeaf(s, MoveRecs(SetRec(@, 0, tempKey, tempData),
                                                         1, mid + 1, count - mid), count - mid)], 0),
        s.rv, tempKey)

\* the left half was written at s.rv; the new record goes into the right half
NorLeafHighRight(s, count, mid, key, data) ==
    SplitDone(
        writePage([s EXCEPT !.frames[0] =
                      vmtreeSetCountBitsLeaf(s, vmtreeInsertLeaf(MoveRecs(@, 0, mid + 1, count - mid - 1),
                                                                 count - mid - 1, key, data),
                                             count - mid)], 0),
        s.rv,
        IF compareKey(key, Rd(s.frames[0].keys, mid + 1)) < 0 THEN key
        ELSE Rd(s.frames[0].keys, mid + 1))

\* b0: the compacted, sorted leaf with count records
NorLeafSplitAt(s, b0, count, mid, key, data) ==
    IF compareKey(key, Rd(b0.keys, mid)) < 0
    THEN NorLeafLowRight(
             writePage([s EXCEPT !.frames[0] = vmtreeInsertLeaf(NorLeafLeft(s, b0, mid), mid, key, data)],
                       0),
             count, mid, Rd(b0.keys, mid), Rd(b0.vals, mid))
    ELSE NorLeafHighRight(writePage([s EXCEPT !.frames[0] = NorLeafLeft(s, b0, mid)], 0),
                          count, mid, key, data)

NorLeafSplitOf(s, sorted, key, data) ==
    NorLeafSplitAt(s, VMTREE_SET_PREV(sorted.buf, PREV_ID_CONSTANT), sorted.count,
                   Half(sorted.count), key, data)

\* full leaf of the overwrite layout in frame 0; result: the state with left, right and tempKey
NorLeafSplit(s, nextId, key, data) ==
    NorLeafSplitOf(dbbufferSetFree(s, nextId), vmtreeSortBlockNorOverwrite(s, s.frames[0]), key, data)

\* interior split, new pair in the left half: the image of the right half
NorLowRightImage(s, b, count, mid, tempKeyAfterMid, tempPtr) ==
    LET b4 == [vmtreeSetCountBitsInterior(s, b, count - mid)
                  EXCEPT !.vals = Put1(@, 0, tempPtr), !.keys = Put1(@, 0, tempKeyAfterMid)]
    IN [b4 EXCEPT !.keys = Move(@, 1, mid + 2, count - mid - 1),
                  !.vals = Move(@, 1, mid + 2, count - mid - 1)]

\* interior split, new pair in the right half: the image of the right half
NorHighRightImage(s, b, count, mid, left, right, tempKey, compareKeyMid2) ==
    IF compareKeyMid2 >= 0
    THEN vmtreeInsertInteriorNew(
             vmtreeSetCountBitsInterior(s, MoveRecs(b, 0, mid + 1, count - mid), count - mid + 1),
             count - mid, tempKey, left, right)
    ELSE [MoveRecs(vmtreeSetCountBitsInterior(s, b, count - mid + 1), 1, mid + 1, count - mid)
             EXCEPT !.vals = Put1(Put1(@, 0, left), 1, right), !.keys = Put1(@, 0, tempKey)]

\* the left half was written at s.rv; the new pair went into it
NorInteriorLowRight(s, count, mid, tempData, tempKeyAfterMid, tempPtr) ==
    SplitDone(
        writePage([s EXCEPT !.frames[0] = NorLowRightImage(s, @, count, mid, tempKeyAfterMid, tempPtr)],
                  0),
        s.rv, tempData)

\* the left half was written at s.rv; the new pair goes into the right half
NorInteriorHighRight(s, count, mid, left, right, tempKey, compareKeyMid2, tempData) ==
    SplitDone(
        writePage([s EXCEPT !.frames[0] =
                      NorHighRightImage(s, @, count, mid, left, right, tempKey, compareKeyMid2)], 0),
        s.rv, tempData)

\* b0: the compacted, sorted interior node; count: its keys without the last
NorInteriorSplitAt(s, b0, count, mid, left, right, tempKey) ==
    IF compareKey(tempKey, Rd(b0.keys, mid)) < 0
    THEN NorInteriorLowRight(
             writePage([s EXCEPT !.frames[0] =
                           vmtreeInsertInteriorNew(vmtreeSetCountBitsInterior(s, b0, mid + 2),
                                                   mid + 1, tempKey, left, right)], 0),
             count, mid, Rd(b0.keys, mid), Rd(b0.keys, mid + 1), Rd(b0.vals, mid + 1))
    ELSE NorInteriorHighRight(
             writePage([s EXCEPT !.frames[0] = vmtreeSetCountBitsInterior(s, b0, mid + 1)], 0),
             count, mid, left, right, tempKey, compareKey(tempKey, Rd(b0.keys, mid + 1)),
             Rd(b0.keys, mid))

NorInteriorSplitOf(s, sorted, left, right, tempKey) ==
    NorInteriorSplitAt(s, VMTREE_SET_NOR_INTERIOR(sorted.buf), sorted.count - 1,
                       Half(sorted.count - 1), left, right, tempKey)

\* full interior node of the overwrite layout in frame 0 (after a failed insert); the
\* sort of the node calls malloc and free once each, counted in allocs
NorInteriorSplit(s, parent, left, right, tempKey) ==
    NorInteriorSplitOf(
        [dbbufferSetFree(s, parent) EXCEPT !.allocs = @ + 2],
        vmtreeSortInteriorBlockNorOverwrite(s, VMTREE_SET_PREV(s.frames[0], PREV_ID_CONSTANT)),
        left, right, tempKey)

\* the image of a new root over left and right, overwrite layout
NorRootImage(b, left, right, tempKey) ==
    [VMTREE_SET_PREV(VMTREE_SET_ROOT_NOR(vmtreeSetCountBitInterior(vmtreeSetCountBitInterior(b, 0), 1)),
                     PREV_ID_CONSTANT)
        EXCEPT !.keys = Put1(@, 0, tempKey), !.vals = Put1(Put1(@, 0, left), 1, right)]

\* the new root was written at s.rv
NorRootWritten(s) == [s EXCEPT !.activePath[0] = s.rv, !.rv = 0]

NorRootFrame(s, left, right, tempKey) ==
    NorRootWritten(writePage([s EXCEPT !.frames[0] = NorRootImage(@, left, right, tempKey)], 0))

NorAddNewRoot(s, left, right, tempKey) ==
    NorRootFrame(initBufferPage([s EXCEPT !.levels = @ + 1], 0), left, right, tempKey)

RECURSIVE NorParentLoop(_, _, _, _, _)
\* s: the state a split ended in
NorParentNext(s, l) == NorParentLoop(s, l, s.left, s.right, s.tempKey)

\* ins: the result of vmtreeInsertInterior on the parent in frame 0
NorParentInserted(s, ins, l, parent, left, right, tempKey) ==
    IF ins.ok = 1 THEN [overWritePage([s EXCEPT !.frames[0] = ins.buf], 0, parent) EXCEPT !.rv = 0]
    ELSE NorParentNext(NorInteriorSplit([s EXCEPT !.frames[0] = ins.buf], parent, left, right, tempKey),
                       l - 1)

\* the parent of level l is in frame 0
NorParentRead(s, l, parent, left, right, tempKey) ==
    NorParentInserted(s, vmtreeInsertInterior(s, s.frames[0], tempKey, left, right),
                      l, parent, left, right, tempKey)

NorParentLoop(s, l, left, right, tempKey) ==
    IF l < 0 THEN NorAddNewRoot(s, left, right, tempKey)
    ELSE NorParentRead(readPageBuffer(dbbufferSetFree(s, s.activePath[l]), s.activePath[l], 0),
                       l, s.activePath[l], left, right, tempKey)

\* the leaf nextId is in frame 0; i: its first free slot (-1: none)
NorLeafAt(s, nextId, i, key, data) ==
    IF i /= 0 - 1
    THEN [overWritePage([s EXCEPT !.frames[0] = SetRec([@ EXCEPT !.bm1 = Put1(@, i, 0)], i, key, data)],
                        0, nextId) EXCEPT !.rv = 0]
    ELSE NorParentNext(NorLeafSplit(s, nextId, key, data), s.levels - 2)

\* the first slot of the leaf whose free bit is set (-1: none)
NorFreeSlot(s, buf) ==
    LET open == {i \in 0..maxRecordsPerPage(s.parameters)-1 : Rd(buf.bm1, i) = 1}
    IN IF open = {} THEN 0 - 1 ELSE CHOOSE x \in open : \A y \in open : x <= y

\* the leaf nextId is in frame 0
NorLeaf(s, nextId, key, data) == NorLeafAt(s, nextId, NorFreeSlot(s, s.frames[0]), key, data)

\* s.rv is the leaf id the descent ended at
NorDescended(s, key, data) ==
    IF s.rv = IdMinusOne THEN [s EXCEPT !.rv = 0 - 1]
    ELSE NorLeaf(readPageBuffer(s, s.rv, 0), s.rv, key, data)

\* s.rv is the result of dbbufferEnsureSpace
NorEnsured(s, key, data) ==
    IF s.rv = 0 THEN [s EXCEPT !.rv = 0 - 1]
    ELSE NorDescended(Descend(s, key, 0, s.activePath[0], 1, TRUE), key, data)

vmtreePutNorOverwrite(s, key, data) ==
    NorEnsured(dbbufferEnsureSpace(s, EnsurePages, EnsureFuel(s)), key, data)

\* s.rv is the result of dbbufferEnsureSpace
PutEnsured(s, key, data) ==
    IF s.rv = 0 THEN [s EXCEPT !.rv = 0 - 1, !.ensureFailed = TRUE]
    ELSE IF s.parameters = NOR_OVERWRITE THEN vmtreePutNorOverwrite(s, key, data)
    ELSE vmtreePutSorted(s, key, data)

\* rv: 0 stored, -1 not stored; ensureFailed: the capacity check refused
vmtreePut(s, key, data) ==
    PutEnsured(dbbufferEnsureSpace(s, EnsurePages, EnsureFuel(s)), key, data)

(***************************************************************************)
(* Initial state: dbbufferInit followed by vmtreeInit.                     *)
(***************************************************************************)
Modes == {VMTREE, OVERWRITE, NOR_OVERWRITE}
FrameCounts == {2, 3, 4}
MappingSizes == {SmallMappings, LargeMappings}

IdleIterator ==
    [active |-> FALSE, signedRec |-> FALSE, minKey |-> NoKey, maxKey |-> NoKey,
     currentBuffer |-> NullBuffer,
     lastIterRec |-> [l \in 0..MAX_LEVEL-1 |-> 0],
     activeIteratorPath |-> [l \in 0..MAX_LEVEL-1 |-> 0],
     out |-> <<>>, outside |-> FALSE, runs |-> 0]

\* the scratch fields every operation starts with; numMappingCompare: by how much the
\* operation's vmtreeAddMapping and vmtreeDeleteMapping calls advanced that statistic
Scratch ==
    [rv |-> 0, data |-> NoData, src |-> 0 - 1, bad |-> 0 - 1, hang |-> FALSE, writes |-> 0,
     left |-> 0, right |-> 0, tempKey |-> NoKey,
     erases |-> 0, overwrites |-> 0, reads |-> 0, restores |-> 0, skips |-> 0,
     readFailed |-> FALSE, mappingLost |-> FALSE, fixRewrites |-> 0, ensureFailed |-> FALSE,
     badW |-> 0 - 1, writeFailed |-> FALSE, failedPage |-> 0 - 1, pastWindow |-> FALSE,
     allocs |-> 0, erasedPages |-> {}, moveCalls |-> 0,
     takenWrites |-> 0, stepped |-> 0, raised |-> 0,
     num |-> 0, staleWrites |-> 0, split |-> <<>>, copyBack |-> FALSE,
     isplits |-> <<>>, numMappingCompare |-> 0]

\* the record with the fields of f and of g; TLC shares the field table between a record
\* and its EXCEPT copies and orders it on first use, so the record is put in normal form
\* (by the comparison) before any copy of it is made
Compose(f, g) ==
    LET c == [x \in (DOMAIN f) \cup (DOMAIN g) |-> IF x \in DOMAIN f THEN f[x] ELSE g[x]]
    IN IF c = c THEN c ELSE f

\* the buffer after dbbufferInit; endBit: the free bit of the last page, which no loop sets
dbbufferInit(mode, n, m, size, endBit) ==
    Compose(Scratch,
      [parameters |-> mode, numPages |-> n, maxMappings |-> m,
       endDataPage |-> endDataPageOf(size),
       storage |-> [p \in 0..size-1 |-> ErasedPage(mode)],
       prog |-> [p \in 0..size-1 |-> 0],
       freePages |-> [p \in 0..endDataPageOf(size) |->
                        IF p < endDataPageOf(size) \/ p <= 2 * EraseSizeInPages - 1 THEN 1 ELSE endBit],
       status |-> [i \in 0..n-1 |-> 0],
       frames |-> [i \in 0..n-1 |-> ErasedPage(mode)],
       nextPageId |-> 0, nextPageWriteId |-> 0,
       erasedStartPage |-> 0, erasedEndPage |-> 2 * EraseSizeInPages - 1,
       lastHit |-> 0, nextBufferPage |-> 1,
       activePath |-> [l \in 0..MAX_LEVEL-1 |-> 0], levels |-> 1,
       mappings |-> [i \in 0..m-1 |-> [prevPage |-> EMPTY_MAPPING, currPage |-> 0]],
       numMappings |-> 0, savedMappingPrev |-> EMPTY_MAPPING, savedMappingCurr |-> 0,
       wbuf |-> ErasedPage(mode)])

\* the root frame is initialised: mark it and write it
InitRootFrame(s, mode) ==
    writePage([s EXCEPT !.frames[0] = IF mode /= NOR_OVERWRITE
                                      THEN VMTREE_SET_COUNT(VMTREE_SET_ROOT(@), 0)
                                      ELSE VMTREE_SET_ROOT(@)], 0)

InitRootWritten(s) == [s EXCEPT !.activePath[0] = s.rv]

vmtreeInit(mode, n, m, size, endBit) ==
    InitRootWritten(InitRootFrame(initBufferPage(dbbufferInit(mode, n, m, size, endBit), 0), mode))

\* the program state as a record, with fresh scratch fields
Cur ==
    Compose(Scratch,
      [parameters |-> parameters, numPages |-> numPages, maxMappings |-> maxMappings,
       endDataPage |-> endDataPage, storage |-> storage, prog |-> prog, freePages |-> freePages, status |-> status,
       frames |-> frames, nextPageId |-> nextPageId, nextPageWriteId |-> nextPageWriteId,
       erasedStartPage |-> erasedStartPage, erasedEndPage |-> erasedEndPage,
       lastHit |-> lastHit, nextBufferPage |-> nextBufferPage, activePath |-> activePath,
       levels |-> levels, mappings |-> mappings, numMappings |-> numMappings,
       savedMappingPrev |-> savedMappingPrev, savedMappingCurr |-> savedMappingCurr,
       wbuf |-> ErasedPage(parameters)])

Commit(s) ==
    /\ parameters' = s.parameters /\ numPages' = s.numPages /\ maxMappings' = s.maxMappings
    /\ endDataPage' = s.endDataPage
    /\ storage' = s.storage /\ prog' = s.prog /\ freePages' = s.freePages
    /\ status' = s.status /\ frames' = s.frames
    /\ nextPageId' = s.nextPageId /\ nextPageWriteId' = s.nextPageWriteId
    /\ erasedStartPage' = s.erasedStartPage /\ erasedEndPage' = s.erasedEndPage
    /\ lastHit' = s.lastHit /\ nextBufferPage' = s.nextBufferPage
    /\ activePath' = s.activePath /\ levels' = s.levels
    /\ mappings' = s.mappings /\ numMappings' = s.numMappings
    /\ savedMappingPrev' = s.savedMappingPrev /\ savedMappingCurr' = s.savedMappingCurr

\* the history after an operation that ended in s; h carries the facts of the whole run
OpFacts(s, h) ==
    [budget |-> h.budget, nputs |-> h.nputs, ngets |-> h.ngets, faults |-> h.faults,
     clean |-> h.clean, wrapped |-> h.wrapped, mapOps |-> h.mapOps, added |-> h.added,
     bitOps |-> h.bitOps, vector |-> h.vector,
     hang |-> s.hang, writes |-> s.writes, erases |-> s.erases,
     overwrites |-> s.overwrites, restores |-> s.restores, skips |-> s.skips,
     readFailed |-> s.readFailed, mappingLost |-> s.mappingLost, fixRewrites |-> s.fixRewrites,
     ensureFailed |-> s.ensureFailed, writeFailed |-> s.writeFailed, failedPage |-> s.failedPage,
     pastWindow |-> s.pastWindow, allocs |-> s.allocs, moveCalls |-> s.moveCalls,
     takenWrites |-> s.takenWrites, stepped |-> s.stepped,
     raised |-> s.raised, staleWrites |-> s.staleWrites, leafSplit |-> s.split,
     interiorSplits |-> s.isplits, mappingCompares |-> s.numMappingCompare]

\* the variables hold the state s vmtreeInit ended in; budget: the puts of the run;
\* vector: the bit vector the bit functions are called on
InitStateWith(s, budget, vector) ==
    /\ endDataPage = s.endDataPage /\ parameters = s.parameters
    /\ numPages = s.numPages /\ maxMappings = s.maxMappings
    /\ storage = s.storage /\ prog = s.prog /\ freePages = s.freePages
    /\ status = s.status /\ frames = s.frames
    /\ nextPageId = s.nextPageId /\ nextPageWriteId = s.nextPageWriteId
    /\ erasedStartPage = s.erasedStartPage /\ erasedEndPage = s.erasedEndPage
    /\ lastHit = s.lastHit /\ nextBufferPage = s.nextBufferPage
    /\ activePath = s.activePath /\ levels = s.levels
    /\ mappings = s.mappings /\ numMappings = s.numMappings
    /\ savedMappingPrev = s.savedMappingPrev /\ savedMappingCurr = s.savedMappingCurr
    /\ it = IdleIterator
    /\ inserted = {}
    /\ lastOp = [op |-> "init", key |-> NoKey, rv |-> 0, data |-> NoData]
    /\ hist = OpFacts(s, [budget |-> budget, nputs |-> 0, ngets |-> 0, faults |-> 0,
                          clean |-> TRUE, wrapped |-> FALSE, mapOps |-> 0, added |-> {},
                          bitOps |-> 0, vector |-> vector])

NoVector == <<>>

InitState(s, budget) == InitStateWith(s, budget, NoVector)

\* cfgs: tuples <<mode, frames, mapping slots, device pages, puts per run>>
InitWith(cfgs) ==
    \E c \in cfgs : \E endBit \in {0, 1} :
        InitState(vmtreeInit(c[1], c[2], c[3], c[4], endBit), c[5])

\* every mode, every frame count, all public operations, short runs
Configs ==
    {<<mode, n, LargeMappings, StorageSize, GenPuts>> : mode \in Modes, n \in FrameCounts}

\* copy-on-write mode with the large mapping table
CowConfigs == {<<VMTREE, 3, LargeMappings, StorageSize, CowPuts>>}

\* copy-on-write mode with the small mapping table
MapConfigs == {<<VMTREE, 3, SmallMappings, StorageSize, MapPuts>>}

\* update-in-place mode
OverwriteConfigs == {<<OVERWRITE, 3, LargeMappings, StorageSize, OverwritePuts>>}

\* in-page-overwrite mode on the small device
NorConfigs == {<<NOR_OVERWRITE, 3, LargeMappings, SmallStorage, MaxPuts>>}

Init == InitWith(Configs)
InitCow == InitWith(CowConfigs)
InitMap == InitWith(MapConfigs)
InitOverwrite == InitWith(OverwriteConfigs)
InitNor == InitWith(NorConfigs)

\* copy-on-write mode on a device large enough for a tree of five levels
TallConfigs == {<<VMTREE, n, LargeMappings, TallStorage, TallPuts>> : n \in FrameCounts}
InitTall == InitWith(TallConfigs)

(***************************************************************************)
(* Actions: one per public operation.                                      *)
(***************************************************************************)
Unused == Keys \ inserted
LowHalf == Unused \cap (1..(MaxKey \div 2))
HighHalf == Unused \cap ((MaxKey \div 2 + 1)..MaxKey)
\* the keys a put may carry: the next key of the ascending run in either half of the key space
PutKeys ==
    {k \in LowHalf : \A j \in LowHalf : k <= j} \cup {k \in HighHalf : \A j \in HighHalf : k <= j}
AllKeys == 0..MaxKey+1     \* the keys a get may ask for: 0 and MaxKey+1 are never inserted
\* the keys the Get action asks for: the first key of the low run and a key above every stored key
GetKeys == {1, MaxKey + 1}
\* the bounds <<minKey, maxKey>> an iterator is opened with
IterBounds == {<<0, MaxKey>>, <<2, MaxKey \div 2 + 1>>}
\* the pages whose read the driver may fail
FaultPages == 0..EraseSizeInPages

\* the put of k ended in s
PutDone(s, k) ==
    /\ Commit(s)
    /\ inserted' = IF s.rv = 0 THEN inserted \cup {k} ELSE inserted
    /\ lastOp' = [op |-> "put", key |-> k, rv |-> s.rv, data |-> DataOf(k)]
    /\ hist' = OpFacts(s, [hist EXCEPT !.nputs = @ + 1,
                                       !.clean = @ /\ s.rv = 0 /\ ~s.hang,
                                       !.wrapped = @ \/ s.nextPageWriteId < nextPageWriteId])
    /\ it' = it

\* vmtreePut(key, DataOf(key))
Put(k) ==
    /\ ~hist.hang /\ ~it.active
    /\ hist.nputs < hist.budget
    /\ k \in PutKeys
    /\ PutDone(vmtreePut(Cur, k, DataOf(k)), k)

\* vmtreePut of the next key of the ascending run 1, 2, 3, ...
PutAscending ==
    /\ ~hist.hang /\ ~it.active
    /\ hist.nputs < hist.budget
    /\ PutDone(vmtreePut(Cur, hist.nputs + 1, DataOf(hist.nputs + 1)), hist.nputs + 1)

\* the get of k ended in s
GetDone(s, k) ==
    /\ Commit(s)
    /\ lastOp' = [op |-> "get", key |-> k, rv |-> s.rv, data |-> s.data]
    /\ hist' = OpFacts(s, [hist EXCEPT !.ngets = @ + 1, !.clean = @ /\ ~s.hang])
    /\ UNCHANGED <<inserted, it>>

\* vmtreeGet(key)
Get(k) ==
    /\ ~hist.hang /\ ~it.active
    /\ hist.ngets < MaxGets
    /\ GetDone(vmtreeGet(Cur, k), k)

\* the get of k ended in s after the driver failed a read
GetFaultDone(s, k) ==
    /\ s.readFailed
    /\ Commit(s)
    /\ lastOp' = [op |-> "get", key |-> k, rv |-> s.rv, data |-> s.data]
    /\ hist' = OpFacts(s, [hist EXCEPT !.faults = @ + 1, !.clean = FALSE])
    /\ UNCHANGED <<inserted, it>>

\* vmtreeGet(key) while the driver fails every read of page bad
GetFault(k, bad) ==
    /\ ~hist.hang /\ ~it.active
    /\ hist.faults < MaxFaults
    /\ GetFaultDone(vmtreeGet([Cur EXCEPT !.bad = bad], k), k)

\* the pages whose write the driver may fail: the window erased at init
WriteFaultPages == 0..(2 * EraseSizeInPages - 1)

\* the put of k ended in s after the driver failed a write
PutFaultDone(s, k) ==
    /\ s.writeFailed
    /\ Commit(s)
    /\ inserted' = IF s.rv = 0 THEN inserted \cup {k} ELSE inserted
    /\ lastOp' = [op |-> "put", key |-> k, rv |-> s.rv, data |-> DataOf(k)]
    /\ hist' = OpFacts(s, [hist EXCEPT !.nputs = @ + 1, !.faults = @ + 1, !.clean = FALSE])
    /\ it' = it

\* vmtreePut(key, DataOf(key)) while the driver fails every write of page bad
PutFault(k, bad) ==
    /\ ~hist.hang /\ ~it.active
    /\ hist.nputs < hist.budget
    /\ hist.faults < MaxFaults
    /\ k \in PutKeys
    /\ PutFaultDone(vmtreePut([Cur EXCEPT !.badW = bad], k, DataOf(k)), k)

\* the pages the mapping-table calls are made with
MapPrevPages == 0..(MapPrevs - 1)
MapCurrPages == {StorageSize - 2, StorageSize - 1}

\* a call of a mapping-table function ended in s; added: the pairs <<prev, curr>> of the
\* successful adds that no delete of prev followed
MapCallDone(s, op, added) ==
    /\ Commit(s)
    /\ lastOp' = op
    /\ hist' = OpFacts(s, [hist EXCEPT !.mapOps = @ + 1, !.added = added])
    /\ UNCHANGED <<inserted, it>>

AddMappingDone(s, p, c) ==
    MapCallDone(s, [op |-> "addMapping", key |-> p, rv |-> s.rv, data |-> c],
                IF s.rv = 0 THEN {e \in hist.added : e[1] /= p} \cup {<<p, c>>} ELSE hist.added)

\* vmtreeAddMapping(prevPage, currPage)
AddMapping(p, c) ==
    /\ hist.mapOps < MaxMapOps
    /\ AddMappingDone(vmtreeAddMapping(Cur, p, c), p, c)

\* vmtreeDeleteMapping(prevPage), which always returns 0
DeleteMapping(p) ==
    /\ hist.mapOps < MaxMapOps
    /\ MapCallDone(vmtreeDeleteMapping(Cur, p),
                   [op |-> "deleteMapping", key |-> p, rv |-> 0, data |-> NoData],
                   {e \in hist.added : e[1] /= p})

\* vmtreeGetMapping(pageId); the page it returns is kept in lastOp.data
GetMapping(p) ==
    /\ hist.mapOps < MaxMapOps
    /\ MapCallDone(Cur, [op |-> "getMapping", key |-> p, rv |-> 0,
                         data |-> vmtreeGetMapping(Cur, p)], hist.added)

\* the bit vectors the bit functions start from, and the positions they are called with
BitSeeds == {0, 165, 255}
BitVectors == [0..(BitBytes - 1) -> BitSeeds]
BitPositions == 0..(BitBytes * BV_UNIT_SIZE - 1)

\* a call of a bit function left the vector v
BitCallDone(op, v) ==
    /\ lastOp' = op
    /\ hist' = [hist EXCEPT !.bitOps = @ + 1, !.vector = v]
    /\ UNCHANGED <<parameters, numPages, maxMappings, endDataPage, storage, prog, freePages,
                   status, frames, nextPageId, nextPageWriteId, erasedStartPage, erasedEndPage,
                   lastHit, nextBufferPage, activePath, levels, mappings, numMappings,
                   savedMappingPrev, savedMappingCurr, it, inserted>>

\* bitarrSet(vector, pos, value)
BitarrSet(pos, value) ==
    /\ hist.bitOps < MaxBitOps
    /\ BitCallDone([op |-> "bitarrSet", key |-> pos, rv |-> 0, data |-> value],
                   bitarrSet(hist.vector, pos, value))

\* bitarrGet(vector, pos); the bit it returns is kept in lastOp.rv
BitarrGet(pos) ==
    /\ hist.bitOps < MaxBitOps
    /\ BitCallDone([op |-> "bitarrGet", key |-> pos, rv |-> bitarrGet(hist.vector, pos),
                    data |-> NoData], hist.vector)

\* vmtreeInitIterator ended in r
InitIteratorDone(r, b) ==
    /\ Commit(r.s)
    /\ it' = r.it
    /\ lastOp' = [op |-> "initIterator", key |-> b[1], rv |-> 0, data |-> NoData]
    /\ hist' = OpFacts(r.s, [hist EXCEPT !.clean = @ /\ ~r.s.hang])
    /\ UNCHANGED inserted

\* vmtreeInitIterator with minKey = b[1], maxKey = b[2]
InitIterator(b, sgn) ==
    /\ ~hist.hang /\ ~it.active
    /\ parameters /= NOR_OVERWRITE
    /\ it.runs < MaxIters
    /\ InitIteratorDone(
           vmtreeInitIterator(Cur, [IdleIterator EXCEPT !.active = TRUE, !.signedRec = sgn,
                                                        !.minKey = b[1], !.maxKey = b[2],
                                                        !.runs = it.runs + 1]), b)

\* vmtreeNext ended in r; a returned key is appended to it.out
IterNextDone(r) ==
    /\ Commit(r.s)
    /\ it' = IF r.s.rv = 1
             THEN [r.it EXCEPT !.out = Append(@, r.key),
                               !.outside = @ \/ r.slot \notin 0..(r.s.frames[r.it.currentBuffer].count - 1)]
             ELSE [r.it EXCEPT !.active = FALSE]
    /\ lastOp' = [op |-> "next", key |-> r.key, rv |-> r.s.rv, data |-> r.data]
    /\ hist' = OpFacts(r.s, [hist EXCEPT !.clean = @ /\ ~r.s.hang])
    /\ UNCHANGED inserted

\* vmtreeNext on the open iterator
IterNext ==
    /\ ~hist.hang /\ it.active
    /\ IterNextDone(vmtreeNext(Cur, it))

Next ==
    \/ \E k \in Keys : Put(k)
    \/ \E k \in GetKeys : Get(k)
    \/ \E k \in GetKeys : \E bad \in FaultPages : GetFault(k, bad)
    \/ \E b \in IterBounds : \E sgn \in BOOLEAN : InitIterator(b, sgn)
    \/ IterNext

\* puts only: the long runs that fill the device
NextPut == \E k \in Keys : Put(k)

NextWriteFault ==
    \/ \E k \in Keys : Put(k)
    \/ \E k \in Keys : \E bad \in WriteFaultPages : PutFault(k, bad)

\* the mapping table alone, on a fresh tree
NextMapping ==
    \/ \E p \in MapPrevPages : \E c \in MapCurrPages : AddMapping(p, c)
    \/ \E p \in MapPrevPages : DeleteMapping(p)
    \/ \E p \in MapPrevPages : GetMapping(p)

\* the bit functions alone
NextBitarr ==
    \/ \E pos \in BitPositions : \E value \in {0, 1} : BitarrSet(pos, value)
    \/ \E pos \in BitPositions : BitarrGet(pos)

InitBitarr ==
    \E v \in BitVectors : \E endBit \in {0, 1} :
        InitStateWith(vmtreeInit(NOR_OVERWRITE, 3, LargeMappings, SmallStorage, endBit), 0, v)

\* a sorted leaf with the records of the ascending key sequence q
WideLeaf(q) ==
    [InitPage(VMTREE) EXCEPT
        !.count = Len(q),
        !.keys = [i \in 0..WideSlots-1 |-> IF i < Len(q) THEN q[i + 1] ELSE INT32_MAX],
        !.vals = [i \in 0..WideSlots |-> IF i < Len(q) THEN DataOf(q[i + 1]) ELSE INT32_MAX]]

\* pointers of the interior nodes of the node-level runs, and the pair a split inserts
WidePointer(i) == 10 + i
WideLeft == 20
WideRight == 21

\* a sorted interior node with the keys of the ascending key sequence q
WideNode(q) ==
    [InitPage(VMTREE) EXCEPT
        !.count = Len(q), !.interior = TRUE,
        !.keys = [i \in 0..WideSlots-1 |-> IF i < Len(q) THEN q[i + 1] ELSE INT32_MAX],
        !.vals = [i \in 0..WideSlots |-> IF i <= Len(q) THEN WidePointer(i) ELSE INT32_MAX]]

AscendingRuns ==
    {q \in UNION {[1..n -> 1..WideKeys] : n \in 0..WideSlots} :
        \A i \in 1..Len(q)-1 : q[i] < q[i + 1]}

\* a fresh tree together with a leaf and a key for the node-level functions
InitNode ==
    \E q \in AscendingRuns : \E k \in 0..WideKeys+1 :
        InitStateWith(vmtreeInit(VMTREE, 3, LargeMappings, StorageSize, 0), 0,
                      [leaf |-> WideLeaf(q), node |-> WideNode(q), key |-> k])

\* vmtreeSearchNode(leaf, key, range = 1); the index it returns is kept in lastOp.rv
SearchLeaf ==
    /\ hist.vector /= NoVector /\ lastOp.op = "init"
    /\ lastOp' = [op |-> "searchNode", key |-> hist.vector.key, data |-> NoData,
                  rv |-> vmtreeSearchNode(Cur, hist.vector.leaf, hist.vector.key, 1)]
    /\ UNCHANGED <<parameters, numPages, maxMappings, endDataPage, storage, prog, freePages,
                   status, frames, nextPageId, nextPageWriteId, erasedStartPage, erasedEndPage,
                   lastHit, nextBufferPage, activePath, levels, mappings, numMappings,
                   savedMappingPrev, savedMappingCurr, it, inserted, hist>>

\* the leaf of the run is in frame 0 and full: the split of vmtreePut for the key of the run
SplitLeafOf(s, leaf, key) ==
    LeafSplit(s, vmtreeSearchNode(s, leaf, key, 1), leaf.count, key, DataOf(key))

\* the leaf split of vmtreePut on a page whose capacity is the count of the leaf
SplitLeaf(back) ==
    /\ hist.vector /= NoVector /\ lastOp.op = "init"
    /\ hist.vector.leaf.count >= 2 /\ hist.vector.key \in 1..WideKeys
    /\ \A i \in 0..hist.vector.leaf.count-1 : hist.vector.leaf.keys[i] /= hist.vector.key
    /\ Commit(SplitLeafOf([Cur EXCEPT !.frames[0] = hist.vector.leaf, !.copyBack = back],
                          hist.vector.leaf, hist.vector.key))
    /\ hist' = OpFacts(SplitLeafOf([Cur EXCEPT !.frames[0] = hist.vector.leaf, !.copyBack = back],
                                   hist.vector.leaf, hist.vector.key), hist)
    /\ lastOp' = [op |-> "split", key |-> hist.vector.key, rv |-> 0, data |-> DataOf(hist.vector.key)]
    /\ UNCHANGED <<it, inserted>>

\* the child index vmtreeSearchNode returns for an interior node whose capacity is its count
InteriorChild(buf, key) ==
    IF buf.count = 1 THEN (IF compareKey(key, Rd(buf.keys, 0)) < 0 THEN 0 ELSE 1)
    ELSE InteriorBinarySearch(buf, key, 0, buf.count)

\* the interior node of the run is in frame 0 and full: the split of vmtreePut for the key
\* of the run with the children WideLeft and WideRight
SplitNodeOf(s, node, key) ==
    InteriorSplitAt([s EXCEPT !.frames[0] = VMTREE_SET_PREV(node, PREV_ID_CONSTANT)], node.count,
                    InteriorChild(node, key), WideLeft, WideRight, key)

\* the interior split of vmtreePut on a page whose capacity is the count of the node
SplitNode(back) ==
    /\ hist.vector /= NoVector /\ lastOp.op = "init"
    /\ hist.vector.node.count >= 2 /\ hist.vector.key \in 1..WideKeys
    /\ \A i \in 0..hist.vector.node.count-1 : hist.vector.node.keys[i] /= hist.vector.key
    /\ Commit(SplitNodeOf([Cur EXCEPT !.levels = 2, !.copyBack = back],
                          hist.vector.node, hist.vector.key))
    /\ hist' = OpFacts(SplitNodeOf([Cur EXCEPT !.levels = 2, !.copyBack = back],
                                   hist.vector.node, hist.vector.key), hist)
    /\ lastOp' = [op |-> "splitNode", key |-> hist.vector.key, rv |-> 0, data |-> NoData]
    /\ UNCHANGED <<it, inserted>>

\* puts on a tree, and the node-level steps on the nodes of the node-level runs
NextNode ==
    \/ \E k \in Keys : Put(k)
    \/ SearchLeaf
    \/ \E back \in BOOLEAN : SplitLeaf(back)
    \/ \E back \in BOOLEAN : SplitNode(back)

\* an overwrite-layout leaf without a free slot: slot i holds key q[i + 1] and is valid
\* iff v[i + 1] = 1
FullNorLeaf(q, v) ==
    [InitPage(NOR_OVERWRITE) EXCEPT
        !.bm1 = [i \in DOMAIN @ |-> IF i < Len(q) THEN 0 ELSE @[i]],
        !.bm2 = [i \in DOMAIN @ |-> IF i < Len(q) THEN v[i + 1] ELSE @[i]],
        !.keys = [i \in DOMAIN @ |-> IF i < Len(q) THEN q[i + 1] ELSE @[i]],
        !.vals = [i \in DOMAIN @ |-> IF i < Len(q) THEN DataOf(q[i + 1]) ELSE @[i]]]

\* a fresh tree of any mode together with a full overwrite-layout leaf
InitPageRun ==
    \E mode \in Modes :
        \E q \in [1..maxRecordsPerPage(NOR_OVERWRITE) -> 1..PageKeys] :
            \E v \in [1..maxRecordsPerPage(NOR_OVERWRITE) -> {0, 1}] :
                InitStateWith(vmtreeInit(mode, 3, LargeMappings, StorageSize, 0), 0,
                              [leaf |-> FullNorLeaf(q, v)])

\* vmtreeSortBlockNorOverwrite on the leaf of the run, which vmtreePutNorOverwrite holds in
\* frame 0; the count it returns is kept in lastOp.rv
SortBlock ==
    /\ hist.vector /= NoVector /\ lastOp.op = "init" /\ parameters = NOR_OVERWRITE
    /\ Commit([Cur EXCEPT !.frames[0] = vmtreeSortBlockNorOverwrite(Cur, hist.vector.leaf).buf])
    /\ lastOp' = [op |-> "sortBlock", key |-> NoKey, data |-> NoData,
                  rv |-> vmtreeSortBlockNorOverwrite(Cur, hist.vector.leaf).count]
    /\ UNCHANGED <<it, inserted, hist>>

\* initBufferPage(f) on a frame that holds the leaf of the run as page 1
InitBufferPage(f) ==
    /\ hist.vector /= NoVector /\ lastOp.op \in {"init", "sortBlock"} /\ f < numPages
    /\ Commit(initBufferPage([Cur EXCEPT !.frames[f] = hist.vector.leaf, !.status[f] = 1], f))
    /\ lastOp' = [op |-> "initBufferPage", key |-> f, data |-> NoData, rv |-> f]
    /\ UNCHANGED <<it, inserted, hist>>

\* the page-level steps on the leaf of the page-level runs
NextPage ==
    \/ SortBlock
    \/ \E f \in 0..2 : InitBufferPage(f)

Spec == Init /\ [][Next]_vars
SpecPage == InitPageRun /\ [][NextPage]_vars
SpecNode == (InitCow \/ InitNode) /\ [][NextNode]_vars
SpecCow == InitCow /\ [][NextPut]_vars
SpecMap == InitMap /\ [][NextPut]_vars
SpecOverwrite == InitOverwrite /\ [][NextPut]_vars
SpecNor == InitNor /\ [][NextPut]_vars
SpecWriteFault == Init /\ [][NextWriteFault]_vars
SpecMapping == (InitCow \/ InitMap) /\ [][NextMapping]_vars
SpecBitarr == InitBitarr /\ [][NextBitarr]_vars
SpecTall == InitTall /\ [][PutAscending]_vars

(***************************************************************************)
(* Observers used by the properties.                                       *)
(***************************************************************************)
DeviceIds == DOMAIN storage
PageIds == DOMAIN freePages

\* every inserted key is found with the data it was put with
RoundTrip ==
    \A k \in inserted : LET g == vmtreeGet(Cur, k) IN g.rv = 0 /\ g.data = DataOf(k)

\* the child pointers a stored interior node holds
Children(pg) ==
    IF parameters = NOR_OVERWRITE
    THEN {Rd(pg.vals, c) : c \in {x \in 0..maxInteriorRecordsPerPage(parameters)-1 : SlotValid(pg, x)}}
    ELSE {Rd(pg.vals, i) : i \in 0..MinOf(pg.count, maxInteriorRecordsPerPage(parameters))}

\* the physical pages of the tree: from the root, through mapping resolution
RECURSIVE Reachable(_, _)
Reachable(p, l) ==
    {p} \cup (IF l >= levels - 1 \/ p \notin DeviceIds THEN {}
              ELSE UNION {Reachable(vmtreeGetMapping(Cur, c), l + 1) : c \in Children(storage[p])})

TreePages == Reachable(activePath[0], 0)

\* all puts so far returned 0 and the program is not stuck
Quiescent == ~hist.hang

\* the keys of a sequence
RangeOf(seq) == {seq[i] : i \in DOMAIN seq}

\* a strictly ascending sequence
Ascending(seq) == \A i \in DOMAIN seq : \A j \in DOMAIN seq : i < j => seq[i] < seq[j]

(***************************************************************************)
(* Claims C1..C10.                                                         *)
(***************************************************************************)
\* C1: in copy-on-write mode, after puts of distinct keys that all returned 0 (the
\* write cursor may have wrapped, blocks may have been erased and restored), a get
\* of every inserted key returns 0 with the data put with it.
C1_CowRoundTrip == (parameters = VMTREE /\ hist.clean) => RoundTrip

\* C2: in every mode a get of a key that was never inserted returns non-zero.
C2_AbsentNotFound ==
    (hist.faults = 0 /\ ~hist.hang /\ ~it.active)
        => \A k \in AllKeys \ inserted : vmtreeGet(Cur, k).rv /= 0

\* C3: in the sorted layouts an iterator opened with minKey <= maxKey and drained
\* yields exactly the inserted keys in [minKey, maxKey], ascending, each once, and
\* no record from outside slots 0..count-1 of a leaf.
C3_IteratorExact ==
    (lastOp.op = "next" /\ lastOp.rv = 0 /\ hist.clean)
        => /\ RangeOf(it.out) = {k \in inserted : it.minKey <= k /\ k <= it.maxKey}
           /\ Ascending(it.out)
           /\ ~it.outside

\* C4: between two erases covering a page (or from init to the first) at most one
\* write issued through writePage or writePageDirect addresses the page.
C4_WriteOncePerErase == \A p \in DeviceIds : prog[p] <= 1

\* C5: between public operations no page reachable from activePath[0] through
\* child pointers (resolved through the mapping table) has its free bit set.
C5_LivePagesNotFree == Quiescent => \A p \in TreePages \cap PageIds : freePages[p] = 0

\* C6: in update-in-place mode, after puts of distinct keys that all returned 0, a
\* get of every inserted key returns 0 with the data put with it.
C6_OverwriteRoundTrip == (parameters = OVERWRITE /\ hist.clean) => RoundTrip

\* C7: in in-page-overwrite mode, after puts of distinct keys that all returned 0
\* (free-slot inserts, leaf splits, interior inserts, interior splits), a get of
\* every inserted key returns 0 with the data put with it.
C7_NorRoundTrip == (parameters = NOR_OVERWRITE /\ hist.clean) => RoundTrip

\* C8: a put that returns -1 because dbbufferEnsureSpace reported no space has
\* issued no storage write and no erase.
C8_RefusedPutWritesNothing ==
    (lastOp.op = "put" /\ hist.ensureFailed /\ ~hist.hang)
        => (hist.writes = 0 /\ hist.erases = 0 /\ hist.overwrites = 0)

\* C9: in copy-on-write mode, when vmtreeAddMapping reports full during a put and
\* vmtreeFixMappings rewrites ancestors, the put returns 0, no redirection is lost
\* and every inserted key stays retrievable.
C9_FixMappingsRecovers ==
    (parameters = VMTREE /\ lastOp.op = "put" /\ hist.fixRewrites > 0 /\ hist.clean)
        => (~hist.mappingLost /\ RoundTrip)

\* C10: a get during which the driver failed a read does not return 0.
C10_ReadErrorSurfaced == (lastOp.op = "get" /\ hist.readFailed) => lastOp.rv /= 0

(***************************************************************************)
(* Claims C11..C20.                                                        *)
(***************************************************************************)
\* the pages the tree refers to: the pages reachable from the root through child
\* pointers and the mapping table, and the current pages of the mapping entries
Installed ==
    TreePages \cup {mappings[i].currPage : i \in {j \in DOMAIN mappings : mappings[j].prevPage /= EMPTY_MAPPING}}

\* C11: a put during which the driver failed a page write returns non-zero, and the
\* page whose write failed is neither the root, nor a child pointer of a reachable
\* page, nor the current page of a mapping entry.
C11_WriteErrorSurfaced ==
    (lastOp.op = "put" /\ hist.writeFailed)
        => (lastOp.rv /= 0 /\ hist.failedPage \notin Installed)

\* n consecutive writePage calls of frame 0
RECURSIVE WritePages(_, _)
WritePages(s, n) == IF n = 0 THEN s ELSE WritePages(writePage(s, 0), n - 1)

\* the state dbbufferEnsureSpace(EnsurePages) leaves when called now
Ensured == dbbufferEnsureSpace(Cur, EnsurePages, EnsureFuel(Cur))

\* C12: when dbbufferEnsureSpace(n) returns 1, each of the next n writePage calls
\* completes and selects a page the write cursor reaches without passing erasedEndPage.
C12_EnsuredWritesInWindow ==
    (~hist.hang /\ Ensured.rv = 1)
        => (~WritePages(Ensured, EnsurePages).hang /\ ~WritePages(Ensured, EnsurePages).pastWindow)

\* the write cursor lies in the erased window, taken cyclically when the window wraps
CursorInWindow ==
    IF erasedStartPage <= erasedEndPage
    THEN erasedStartPage <= nextPageWriteId /\ nextPageWriteId <= erasedEndPage
    ELSE nextPageWriteId >= erasedStartPage \/ nextPageWriteId <= erasedEndPage

\* C13: in copy-on-write mode, the mode for erase-before-write storage, between public
\* operations the write cursor nextPageWriteId lies inside the erased window
\* [erasedStartPage, erasedEndPage].
C13_CursorInErasedWindow == (parameters = VMTREE /\ Quiescent) => CursorInWindow

\* C14: a page's free bit is set exactly when the page is erased, i.e. not written
\* since the last erase covering it or since init.
C14_FreeIffErased == \A p \in PageIds : (freePages[p] = 1) <=> (prog[p] = 0)

\* the previous pages of the mapping entries in use
MappedPrevs ==
    {mappings[i].prevPage : i \in {j \in DOMAIN mappings : mappings[j].prevPage /= EMPTY_MAPPING}}

\* C15: after every put that returned 0, every written page that is neither reachable
\* from the root (through the mapping table) nor the previous page of a mapping entry
\* has its free bit set.
C15_SupersededPagesFree ==
    (lastOp.op = "put" /\ hist.clean)
        => \A p \in PageIds : (prog[p] >= 1 /\ p \notin TreePages /\ p \notin MappedPrevs)
                                  => freePages[p] = 1

\* C16: in copy-on-write mode, between public operations no mapping entry in use has
\* the root activePath[0] as its previous or as its current page.
C16_RootNotMapped ==
    (parameters = VMTREE /\ Quiescent)
        => \A i \in DOMAIN mappings :
               mappings[i].prevPage /= EMPTY_MAPPING
                   => (mappings[i].prevPage /= activePath[0] /\ mappings[i].currPage /= activePath[0])

\* copy-on-write mode, between operations: a tree of three levels whose last put went
\* well, with mapping entries in use, after the write cursor has wrapped
C16_Witness ==
    /\ parameters = VMTREE /\ Quiescent /\ lastOp.op = "put" /\ lastOp.rv = 0
    /\ levels >= 3 /\ numMappings >= 2 /\ hist.wrapped

\* the keys at the indices 0..count-1 of a page image are strictly increasing
KeysIncreasing(pg) ==
    \A i \in 0..(pg.count - 2) : compareKey(Rd(pg.keys, i), Rd(pg.keys, i + 1)) < 0

\* C17: in the sorted-layout modes (VMTREE, OVERWRITE), after puts of pairwise distinct
\* keys that all went well, every page reachable from the root, leaf or interior,
\* stores strictly increasing keys at the indices 0..count-1
C17_SortedPagesIncreasing ==
    (parameters /= NOR_OVERWRITE /\ hist.clean) =>
        \A p \in TreePages : p \in DeviceIds /\ KeysIncreasing(storage[p])

\* the current page the adds and deletes so far leave for p, p itself if none
Expected(p) ==
    IF \E e \in hist.added : e[1] = p THEN (CHOOSE e \in hist.added : e[1] = p)[2] ELSE p

\* the slots of the mapping table that are in use
UsedSlots == {i \in DOMAIN mappings : mappings[i].prevPage /= EMPTY_MAPPING}

\* what the table answers after any sequence of calls
MappingAnswers ==
    /\ \A p \in MapPrevPages : vmtreeGetMapping(Cur, p) = Expected(p)
    /\ lastOp.op = "getMapping" => lastOp.data = Expected(lastOp.key)
    /\ numMappings = Cardinality(hist.added) /\ Cardinality(UsedSlots) = numMappings

\* what one call changes: an add of a present prev keeps the number of entries and the
\* slot, a delete of an absent prev and a refused add change nothing
MappingStep ==
    /\ (lastOp'.op = "addMapping" /\ lastOp'.rv = 0 /\ (\E e \in hist.added : e[1] = lastOp'.key))
          => (numMappings' = numMappings /\ UsedSlots' = UsedSlots)
    /\ (lastOp'.op = "addMapping" /\ lastOp'.rv /= 0)
          => (mappings' = mappings /\ numMappings' = numMappings)
    /\ (lastOp'.op = "deleteMapping" /\ ~(\E e \in hist.added : e[1] = lastOp'.key))
          => (mappings' = mappings /\ numMappings' = numMappings)

\* C18: with maxTries = 1, after any sequence of add, delete and get calls
\* vmtreeGetMapping(p) returns the curr of the most recent successful add of p that no
\* delete of p followed and p itself otherwise; an add of a present prev updates it in
\* place without changing the number of entries; a delete of an absent prev changes nothing
C18_MappingTable == [](hist.mapOps > 0 => MappingAnswers) /\ [][MappingStep]_vars

\* a page that was added and deleted again is asked for while another entry is present
C18_Witness ==
    /\ lastOp.op = "getMapping" /\ hist.mapOps = MaxMapOps
    /\ lastOp.data = lastOp.key /\ numMappings = 1 /\ maxMappings = LargeMappings
    /\ mappings[Probe(Cur, lastOp.key, 0)].prevPage = EMPTY_MAPPING
    /\ mappings[Probe(Cur, lastOp.key, 0)].currPage \in MapCurrPages

\* frame i holds an image of the written page p: it has the bytes stored at p and, for
\* the frames readPage manages, its status entry names p
HoldsImage(i, p) == prog[p] >= 1 /\ frames[i] = storage[p] /\ (i = 0 \/ status[i] = p)

\* C19: at all times at most one of the buffer frames, frame 0 included, holds an image
\* of any given physical page
C19_OneCopyPerPage ==
    \A p \in DeviceIds : Cardinality({i \in DOMAIN frames : HoldsImage(i, p)}) <= 1

\* C20: between initialisation and close no put, get or iterator step of any storage
\* mode calls malloc or free: the count of allocator calls of every operation is zero
C20_NoAllocatorCalls == hist.allocs = 0

(***************************************************************************)
(* Claims C21..C30.                                                        *)
(***************************************************************************)
\* the state a second dbbufferEnsureSpace(n) leaves after a first one ended in a; the
\* counters of erases and writes start again at zero
EnsuredAgain(a, n) ==
    dbbufferEnsureSpace([a EXCEPT !.erases = 0, !.restores = 0, !.writes = 0, !.skips = 0],
                        n, EnsureFuel(a))

\* b has the device state of a and was reached without an erase or a write
SameDevice(a, b) ==
    /\ b.storage = a.storage /\ b.freePages = a.freePages
    /\ b.erasedStartPage = a.erasedStartPage /\ b.erasedEndPage = a.erasedEndPage
    /\ b.nextPageWriteId = a.nextPageWriteId
    /\ b.erases = 0 /\ b.restores = 0 /\ b.writes = 0

EnsureTwice(a, n) == a.hang \/ SameDevice(a, EnsuredAgain(a, n))

\* C21: in every reachable state and for every n, a second dbbufferEnsureSpace(n) right
\* after a first one leaves storage, free bits, erased window and write cursor as the
\* first call left them and issues no erase and no write, whatever the first call returned
C21_EnsureSpaceIdempotent ==
    ~hist.hang =>
        \A n \in 1..EnsurePages : EnsureTwice(dbbufferEnsureSpace(Cur, n, EnsureFuel(Cur)), n)

\* the bit at position k of byte i of the vector
StoredBit(v, i, k) == (v[i] \div 2^k) % 2

\* what one call of a bit function does: after bitarrSet(v, i, b) bitarrGet(v, i) is b,
\* the bit sits in byte i/8 at position i%8, and every other position reads as before;
\* bitarrGet returns the stored bit and changes nothing
BitStep ==
    /\ lastOp'.op = "bitarrSet" =>
          /\ bitarrGet(hist'.vector, lastOp'.key) = lastOp'.data
          /\ StoredBit(hist'.vector, lastOp'.key \div 8, lastOp'.key % 8) = lastOp'.data
          /\ \A j \in BitPositions \ {lastOp'.key} :
                 /\ bitarrGet(hist'.vector, j) = bitarrGet(hist.vector, j)
                 /\ StoredBit(hist'.vector, j \div 8, j % 8) = StoredBit(hist.vector, j \div 8, j % 8)
    /\ lastOp'.op = "bitarrGet" =>
          /\ hist'.vector = hist.vector
          /\ lastOp'.rv = StoredBit(hist.vector, lastOp'.key \div 8, lastOp'.key % 8)

\* C22: for in-range indices i /= j, after bitarrSet(v, i, b) bitarrGet(v, i) returns b
\* and bitarrGet(v, j) returns what it returned before; bit i is held in byte i/8 at
\* bit position i%8
C22_BitSetGet == [][BitStep]_vars

\* a bit of the second byte was cleared in a byte that had other bits set
C22_Witness ==
    /\ lastOp.op = "bitarrSet" /\ lastOp.data = 0 /\ lastOp.key = 10
    /\ hist.vector[1] = 161 /\ hist.vector[0] = 255

\* C23: every vmtreePut terminates, in every reachable state: the block loop and the
\* recursion of dbbufferEnsureSpace and the scan of dbbufferNextValidPage all finish
C23_PutTerminates == lastOp.op = "put" => ~hist.hang

\* two page images that differ at most in the 4-byte logical id
SameButId(a, b) == [a EXCEPT !.id = 0] = [b EXCEPT !.id = 0]

\* a: the state dbbufferEnsureSpace left when called in the current state.  The pages
\* vmtreeIsValid reports reachable in the blocks the call erased hold the bytes they held
\* before, the logical id aside, and are not free; the pages outside those blocks are
\* as they were
BlocksRestored(a) ==
    \A p \in DeviceIds :
        IF p \in a.erasedPages
        THEN (p \in PageIds /\ vmtreeIsValid(Cur, p) = 0)
                 => (SameButId(a.storage[p], storage[p]) /\ a.freePages[p] = 0)
        ELSE a.storage[p] = storage[p]

HitIsCurrent(r, p) == r.reads = 0 => SameButId(r.frames[r.rv], storage[p])

\* C25: whenever readPage(p) returns a cached frame, the frame holds the bytes most
\* recently written to physical page p, also after p was erased and rewritten
C25_CachedFrameCurrent ==
    (~hist.hang /\ hist.faults = 0) =>
        \A p \in DeviceIds : prog[p] >= 1 => HitIsCurrent(readPage(Cur, p), p)

\* C26: for a tree of any height, one vmtreePut issues at most 8 writePage calls after
\* its dbbufferEnsureSpace(8): both halves of every split, the new root and the ancestor
\* rewrites of vmtreeFixMappings counted (the write-backs of dbbufferEnsureSpace go
\* through writePageDirect and are not counted)
C26_AtMostEightWrites == lastOp.op = "put" => hist.writes - hist.restores <= EnsurePages

\* C27: during dbbufferEnsureSpace the movePage callback is invoked once for each saved
\* page that writePageDirect wrote back, before the next write-back and before the
\* return: at the end of an operation there are as many invocations as write-backs
C27_MovePageAfterRestore == hist.restores > 0 => hist.moveCalls = hist.restores

\* some entry of the mapping table names p as its prevPage
NamedAsPrev(p) == \E i \in DOMAIN mappings : mappings[i].prevPage = p

\* some entry of the mapping table maps p to a different page
MappedAway(p) == \E i \in DOMAIN mappings : mappings[i].prevPage = p /\ mappings[i].currPage /= p

\* C28 as stated: vmtreeIsValid(p) returns unreachable (-1) whenever the free bit of p is
\* set; otherwise remapped (1) whenever some mapping entry has prevPage = p; otherwise
\* reachable (0)
C28_FreeBitFirst ==
    \A p \in PageIds :
        vmtreeIsValid(Cur, p) = IF freePages[p] = 1 THEN 0 - 1
                                ELSE IF NamedAsPrev(p) THEN 1 ELSE 0

\* C28 as amended: vmtreeIsValid(p) returns reachable (0) whenever the free bit of p is
\* clear; otherwise remapped (1) whenever some mapping entry maps p to a different page;
\* otherwise unreachable (-1)
C28_ValidBitFirst ==
    \A p \in PageIds :
        vmtreeIsValid(Cur, p) = IF freePages[p] = 0 THEN 0
                                ELSE IF MappedAway(p) THEN 1 ELSE 0 - 1

\* after an erase, one page is free and mapped away, one is in use and mapped away, one
\* is free and unmapped
C28_Witness ==
    /\ hist.erases > 0
    /\ \E p \in PageIds : freePages[p] = 1 /\ MappedAway(p)
    /\ \E p \in PageIds : freePages[p] = 0 /\ MappedAway(p)
    /\ \E p \in PageIds : freePages[p] = 1 /\ ~NamedAsPrev(p)

C30_OnlyClearsBits == parameters = NOR_OVERWRITE => hist.raised = 0

(***************************************************************************)
(* Claims C31..C40.                                                        *)
(***************************************************************************)
\* the pages a moved page can go to: free and not named by a mapping
MoveTargets == {p \in PageIds : freePages[p] = 1 /\ vmtreeGetMapping(Cur, p) = p}

\* the state after the page stored at prev was read and reported as moved to curr
Moved(prev, curr) ==
    LET r == readPage(Cur, prev) IN vmtreeMovePage(r, prev, curr, r.rv)

\* some mapping entry of m leads to curr
LeadsTo(m, curr) ==
    \E i \in DOMAIN m.mappings :
        m.mappings[i].prevPage /= EMPTY_MAPPING /\ m.mappings[i].currPage = curr

\* the entries of the mapping table in use
EntriesOf(m) ==
    {m.mappings[i] : i \in {j \in DOMAIN m.mappings : m.mappings[j].prevPage /= EMPTY_MAPPING}}

\* C31: vmtreeMovePage(prev, curr, buf) on a page other than the root leaves a mapping
\* entry that leads to curr, also when the slot that prev hashes to is held by another
\* entry; on the root it sets activePath[0] to curr and adds no mapping entry
C31_MovedPageResolvable ==
    ~hist.hang =>
        \A prev \in TreePages \cap DeviceIds : \A curr \in MoveTargets :
            IF prev = activePath[0]
            THEN /\ Moved(prev, curr).activePath[0] = curr
                 /\ EntriesOf(Moved(prev, curr)) \subseteq EntriesOf(Cur)
            ELSE LeadsTo(Moved(prev, curr), curr)

\* the page that the mapping table of m gives for p (p itself when no entry names it)
TableOf(m, p) ==
    IF \E i \in DOMAIN m.mappings : m.mappings[i].prevPage = p
    THEN m.mappings[CHOOSE i \in DOMAIN m.mappings : m.mappings[i].prevPage = p].currPage
    ELSE p

\* u is r after vmtreeUpdatePointers(frame f, 0, count): the mapped pointers are replaced,
\* their entries deleted and no others, and num is the number of pointers replaced
PointersUpdated(r, u, f) ==
    LET old == r.frames[f].vals
        stale == {c \in 0..r.frames[f].count : TableOf(r, old[c]) /= old[c]}
    IN /\ \A c \in DOMAIN old :
             u.frames[f].vals[c] = IF c \in stale THEN TableOf(r, old[c]) ELSE old[c]
       /\ EntriesOf(u) = {e \in EntriesOf(r) : \A c \in stale : e.prevPage /= old[c]}
       /\ u.num = Cardinality(stale)

\* the interior pages of the tree
InteriorPages == {p \in TreePages \cap DeviceIds : IsInteriorNode(Cur, storage[p])}

\* vmtreeUpdatePointers on the frame that readPage(p) returns, over all its pointers
UpdatedAt(p) ==
    LET r == readPage(Cur, p)
    IN PointersUpdated(r, vmtreeUpdatePointers(r, r.rv, 0, r.frames[r.rv].count), r.rv)

\* C32: vmtreeUpdatePointers(buf, start, end) replaces every child pointer in the range
\* that has a mapping to a different id by that id, deletes exactly those mappings and
\* returns the number of pointers replaced; and no interior page image written by
\* vmtreePut or vmtreeFixMappings has a child pointer that is the prev of a mapping entry
C32_PointersUpdated ==
    (~hist.hang /\ hist.faults = 0) =>
        /\ \A p \in InteriorPages : UpdatedAt(p)
        /\ hist.staleWrites = 0

\* a put during which vmtreeFixMappings rewrote an ancestor, in a tree with an interior
\* page that has a child pointer named by a mapping entry
C32_Witness ==
    /\ lastOp.op = "put" /\ ~hist.hang /\ hist.faults = 0
    /\ hist.fixRewrites > 0 /\ hist.staleWrites = 0
    /\ \E p \in InteriorPages : \E c \in 0..storage[p].count :
           TableOf(Cur, storage[p].vals[c]) /= storage[p].vals[c]

\* C33: with at least 3 frames, readPage(p) for a page p other than activePath[0] never
\* loads p into frame 1 (the root frame) nor into frame 0 (the scratch frame), whatever
\* the reads before it, the first eviction with frames 2..N_b-1 occupied included
C33_RootFrameReserved ==
    (~hist.hang /\ numPages >= 3) =>
        \A p \in DeviceIds \ {activePath[0]} :
            readPage(Cur, p).reads > 0 => readPage(Cur, p).rv \notin {0, 1}

\* the records of the first n slots of a page image, as key/data pairs
RecsOf(pg, n) == [i \in 1..n |-> <<Rd(pg.keys, i - 1), Rd(pg.vals, i - 1)>>]

\* how often pair kv occurs in sequence q
Occurs(q, kv) == Cardinality({i \in DOMAIN q : q[i] = kv})

StrictlySorted(pg) == \A i \in 1..pg.count-1 : Rd(pg.keys, i - 1) < Rd(pg.keys, i)

\* sp: a leaf split; l, r: the images stored at the ids of its two halves
HalvesOf(sp, l, r) ==
    LET count == sp.full.count
        before == RecsOf(sp.full, count) \o <<(<<sp.key, sp.data>>)>>
        after == RecsOf(l, l.count) \o RecsOf(r, r.count)
    IN /\ l.count = count \div 2 + 1 /\ r.count = count - count \div 2
       /\ Len(after) = Len(before)
       /\ \A i \in DOMAIN before : Occurs(after, before[i]) = Occurs(before, before[i])
       /\ StrictlySorted(l) /\ StrictlySorted(r)
       /\ \A i \in 0..l.count-1 : Rd(l.keys, i) < sp.promoted
       /\ sp.promoted = Rd(r.keys, 0)

\* C34: when a put in a sorted layout finds a full leaf with count records, the two pages
\* written hold together exactly those records and the new one, the left page has
\* floor(count/2)+1 records and the right page count-floor(count/2), each page is
\* strictly sorted, every key of the left page is below the promoted key, and the
\* promoted key is the smallest key of the right page
C34_LeafSplitHalves ==
    (~hist.hang /\ hist.faults = 0 /\ hist.leafSplit /= <<>>) =>
        /\ hist.leafSplit[1].left \in DeviceIds /\ hist.leafSplit[1].right \in DeviceIds
        /\ HalvesOf(hist.leafSplit[1], storage[hist.leafSplit[1].left],
                    storage[hist.leafSplit[1].right])

\* sequence q with x put before its element i + 1
InsertedAt(q, i, x) == SubSeq(q, 1, i) \o <<x>> \o SubSeq(q, i + 1, Len(q))

\* sp: an interior split; l, r: the images stored at the ids of its two halves
NodeHalvesOf(sp, l, r) ==
    LET keys == InsertedAt(sp.keys, sp.childNum, sp.key)
        ptrs == SubSeq(sp.ptrs, 1, sp.childNum) \o <<sp.newLeft, sp.newRight>>
                    \o SubSeq(sp.ptrs, sp.childNum + 2, sp.count + 1)
    IN /\ SlotsOf(l.keys, l.count) \o <<sp.promoted>> \o SlotsOf(r.keys, r.count) = keys
       /\ SlotsOf(l.vals, l.count + 1) \o SlotsOf(r.vals, r.count + 1) = ptrs
       /\ \A i \in 0..l.count-1 : Rd(l.keys, i) < sp.promoted
       /\ \A i \in 0..r.count-1 : sp.promoted < Rd(r.keys, i)

\* C35: when a put in a sorted layout splits a full interior node, the two written nodes
\* and the promoted key hold exactly the original keys and the inserted key (the promoted
\* key in neither node), a node with k keys has k+1 child pointers, the pointers are the
\* original ones with the pointer of the split child replaced by the new left and right
\* ids in key order, and every key of the left node < promoted key < every key of the
\* right node
C35_InteriorSplitHalves ==
    (~hist.hang /\ hist.faults = 0) =>
        \A i \in DOMAIN hist.interiorSplits :
            /\ hist.interiorSplits[i].left \in DeviceIds
            /\ hist.interiorSplits[i].right \in DeviceIds
            /\ NodeHalvesOf(hist.interiorSplits[i], storage[hist.interiorSplits[i].left],
                            storage[hist.interiorSplits[i].right])

\* the slots of leaf image b whose key is at most k
SlotsUpTo(b, k) == {i \in 0..b.count-1 : Rd(b.keys, i) <= k}

\* the greatest element of a non-empty set of slots
LastSlot(S) == CHOOSE i \in S : \A j \in S : j <= i

\* C36 as stated: on a sorted leaf a range search returns the index of the greatest stored
\* key <= the search key, 0 when the search key is smaller than every stored key of a
\* non-empty page, and -1 only when the page is empty
C36_RangeSearchClamped ==
    lastOp.op = "searchNode" =>
        lastOp.rv = IF hist.vector.leaf.count = 0 THEN 0 - 1
                    ELSE IF SlotsUpTo(hist.vector.leaf, lastOp.key) = {} THEN 0
                    ELSE LastSlot(SlotsUpTo(hist.vector.leaf, lastOp.key))

\* C36 (amended): on a sorted leaf a range search returns the index of the greatest stored
\* key <= the search key, and -1 when the page is empty or the search key is smaller than
\* every stored key
C36_RangeSearch ==
    lastOp.op = "searchNode" =>
        lastOp.rv = IF SlotsUpTo(hist.vector.leaf, lastOp.key) = {} THEN 0 - 1
                    ELSE LastSlot(SlotsUpTo(hist.vector.leaf, lastOp.key))

\* a range search below the first key of a full leaf has returned -1
C36_Witness ==
    /\ lastOp.op = "searchNode" /\ hist.vector.leaf.count = WideSlots
    /\ SlotsUpTo(hist.vector.leaf, lastOp.key) = {} /\ lastOp.rv = 0 - 1

\* the slots of the leaf of the run that hold a valid record
ValidSlots(b) == {i \in 0..maxRecordsPerPage(NOR_OVERWRITE)-1 : Rd(b.bm2, i) = 1}

\* the number of slots in S of image b that hold the record of slot i of image a
PairCount(b, S, a, i) ==
    Cardinality({j \in S : Rd(b.keys, j) = Rd(a.keys, i) /\ Rd(b.vals, j) = Rd(a.vals, i)})

\* image b holds in its first n slots, in ascending key order, exactly the valid records
\* of image a
SortedValidRecords(a, b, n) ==
    /\ n = Cardinality(ValidSlots(a))
    /\ \A i \in ValidSlots(a) : PairCount(b, 0..n-1, a, i) = PairCount(a, ValidSlots(a), a, i)
    /\ \A j \in 0..n-1 : \E i \in ValidSlots(a) :
           Rd(b.keys, j) = Rd(a.keys, i) /\ Rd(b.vals, j) = Rd(a.vals, i)
    /\ \A j \in 0..n-2 : Rd(b.keys, j) <= Rd(b.keys, j + 1)

\* C37 as stated: vmtreeSortBlockNorOverwrite on a full overwrite-layout leaf returns the
\* number v of valid records, leaves exactly those records in slots 0..v-1 in ascending
\* key order, and rewrites the two bitmaps so that exactly slots 0..v-1 are marked
\* occupied and valid
C37_SortBlockRewritesBitmaps ==
    lastOp.op = "sortBlock" =>
        /\ SortedValidRecords(hist.vector.leaf, frames[0], lastOp.rv)
        /\ \A i \in 0..maxRecordsPerPage(NOR_OVERWRITE)-1 :
               (frames[0].bm1[i] = 0 /\ frames[0].bm2[i] = 1) <=> i < lastOp.rv

\* C37 (amended): vmtreeSortBlockNorOverwrite on a full overwrite-layout leaf returns the
\* number v of valid records, leaves exactly those records in slots 0..v-1 in ascending
\* key order, and leaves the two bitmaps of the page as they were
C37_SortBlock ==
    lastOp.op = "sortBlock" =>
        /\ SortedValidRecords(hist.vector.leaf, frames[0], lastOp.rv)
        /\ frames[0].bm1 = hist.vector.leaf.bm1
        /\ frames[0].bm2 = hist.vector.leaf.bm2

\* a leaf whose first slot is invalid and whose other records were out of order is sorted
C37_Witness ==
    /\ lastOp.op = "sortBlock" /\ lastOp.rv = maxRecordsPerPage(NOR_OVERWRITE) - 1
    /\ hist.vector.leaf.bm2[0] = 0
    /\ hist.vector.leaf.keys[1] > hist.vector.leaf.keys[2]
    /\ frames[0].keys[0] < frames[0].keys[1]

\* every word of image pg that initBufferPage fills is w
FilledWith(pg, w) ==
    /\ pg.id = w /\ pg.prev = w
    /\ \A i \in DOMAIN pg.keys : pg.keys[i] = w
    /\ \A i \in DOMAIN pg.vals : pg.vals[i] = w

\* C38: initBufferPage(f) leaves every byte of frame f equal to 0x00 in the sorted modes
\* and equal to 0xFF in NOR_OVERWRITE mode, so that every slot-free and slot-valid bit of a
\* fresh overwrite page reads 1, and marks frame f as containing no page
C38_InitBufferPageFill ==
    lastOp.op = "initBufferPage" =>
        /\ status[lastOp.key] = 0
        /\ FilledWith(frames[lastOp.key], IF parameters = NOR_OVERWRITE THEN WORD_ONES ELSE 0)
        /\ parameters = NOR_OVERWRITE =>
               \A i \in 0..maxRecordsPerPage(NOR_OVERWRITE)-1 :
                   frames[lastOp.key].bm1[i] = 1 /\ frames[lastOp.key].bm2[i] = 1

\* the subtree under physical page p at level l ends in leaves at level levels - 1: the
\* pages above that level are interior nodes and the pages at that level are not
RECURSIVE EqualDepth(_, _)
EqualDepth(p, l) ==
    /\ p \in DeviceIds
    /\ IF l >= levels - 1 THEN levels = 1 \/ ~storage[p].interior
       ELSE /\ storage[p].interior
            /\ Children(storage[p]) /= {}
            /\ \A c \in Children(storage[p]) : EqualDepth(vmtreeGetMapping(Cur, c), l + 1)

\* image pg is a root made of one key and the two halves of a split
RootOverHalves(pg) ==
    /\ pg.interior
    /\ IF parameters = NOR_OVERWRITE
       THEN {c \in 0..maxInteriorRecordsPerPage(parameters)-1 : Rd(pg.bm1, c) = 0} = {0, 1}
       ELSE pg.count = 1

\* levels stays, or a put raised it by one and left a root over the two halves of a split
LevelsStep ==
    \/ levels' = levels
    \/ /\ levels' = levels + 1
       /\ lastOp'.op = "put"
       /\ activePath'[0] /= activePath[0]
       /\ activePath'[0] \in DOMAIN storage'
       /\ RootOverHalves(storage'[activePath'[0]])

\* C39: between operations every path from activePath[0] down to a leaf visits exactly
\* levels pages; levels is 1 after vmtreeInit and grows by exactly 1, exactly when a new
\* root is written over the two halves of the former root
C39_LevelsIsHeight ==
    /\ [](lastOp.op = "init" => levels = 1)
    /\ [](Quiescent => EqualDepth(activePath[0], 0))
    /\ [][LevelsStep]_vars

\* the mapping counter agrees with the table: as many mappings as slots in use, and never
\* more than the table has slots
MappingCount == numMappings = Cardinality(UsedSlots) /\ numMappings <= maxMappings

\* the step is a vmtreeAddMapping call that returned -1
RefusedAdd == lastOp'.op = "addMapping" /\ lastOp'.rv = 0 - 1

\* a refused add leaves every slot and the mapping counter as they were
RefusedAddKeepsTable == RefusedAdd => (mappings' = mappings /\ numMappings' = numMappings)

\* C40 as stated: numMappings is at all times the number of slots whose prevPage is not
\* EMPTY_MAPPING and is at most maxMappings, and a vmtreeAddMapping call that returns -1
\* changes no slot and no counter, numMappingCompare included
C40_RefusedAddCountsNothing ==
    /\ []MappingCount
    /\ [][RefusedAddKeepsTable /\ (RefusedAdd => hist'.mappingCompares = 0)]_vars

\* C40: numMappings is at all times the number of slots whose prevPage is not EMPTY_MAPPING
\* and is at most maxMappings; a vmtreeAddMapping call that returns -1 changes no slot and
\* not numMappings, and advances numMappingCompare by the maxTries probes it made
C40_MappingCount ==
    /\ []MappingCount
    /\ [][RefusedAddKeepsTable /\ (RefusedAdd => hist'.mappingCompares = MaxTries)]_vars

\* an add was refused on a table with free slots: the one slot of its chain holds another page
C40_Witness ==
    /\ lastOp.op = "addMapping" /\ lastOp.rv = 0 - 1
    /\ mappings[Probe(Cur, lastOp.key, 0)].prevPage \notin {lastOp.key, EMPTY_MAPPING}
    /\ 0 < numMappings /\ numMappings < maxMappings

====
